---------------------------- MODULE Spec2Model ----------------------------
(***************************************************************************)
(* GitFathom: the commit-text sanitizer (src/src/ai.ts, sanitizeCommitText *)
(* and its helpers), the provider request adapter (generateCommitText),    *)
(* the prompt builder (buildPrompt), the collection of the repository's    *)
(* changes (src/src/git.ts) and the generate command (src/src/extension.ts)*)
(*                                                                         *)
(* Text is a sequence of characters.  A character is a one-character       *)
(* string; a code point outside ASCII is written by its name, "U+65B0".    *)
(* The regular expressions of the source are translated character by       *)
(* character, with the greedy / backtracking behaviour of the JavaScript   *)
(* engine spelled out where it decides the result.                         *)
(***************************************************************************)
EXTENDS Integers, Sequences, FiniteSets, TLC

VARIABLES
    raw,          \* sanitizer run: the raw model text handed to sanitizeCommitText
    sanitized,    \* sanitizer run: its outcome, NotRun before the call
    pc,           \* generateCommitText: where the invocation stands
    config,       \* generateCommitText: the ExtensionConfig of the invocation
    debug,        \* the AiDebugSnapshot of the invocation, None before createDebugSnapshot
    outcome,      \* how generateCommitText settled: result or thrown error
    fetchCalls,   \* number of calls of the transport (fetch) made by the invocation
    timer,        \* the setTimeout of fetchWithTimeout: "unset", "armed", "cleared", "fired"
    elapsed,      \* time since the request was sent, in ticks
    response,     \* the Response the provider answered with, None before
    sanitizerRuns, \* number of calls of sanitizeCommitText made by the invocation
    adapter,      \* the request path the invocation took: "none", "openai", "gemini"
    request,      \* the request handed to fetch: endpoint, headers, body; None before
    stored,       \* what the settings hold (read by readConfig, written by the setup wizard), None if not looked at
    settings,     \* the ExtensionConfig fields read outside the adapter, None before readConfig
    gitOutput,    \* what the git commands of collectRepositoryChanges printed, None before
    snapshot,     \* the ChangeSnapshot of the repository, None before it is collected
    prompt,       \* the PromptPayload built by buildPrompt, None before
    cmd,          \* runGenerateCommitMessage: where the command stands
    inputBox,     \* repository.inputBox.value of the Source Control view
    documents,    \* number of debug documents the command opened
    invocations,  \* the invocations of the generate command of a session, each with its locals
    lastDebugState, \* the module variable lastDebugState of extension.ts, None for undefined
    inputBoxes,   \* inputBox.value of every repository of the session
    shown,        \* what the last Show Last AI Debug Report displayed, None before
    log,          \* the invocations in the order they settled and ended
    wizard        \* openSetupWizard: the step it stands at

vars == <<raw, sanitized, pc, config, debug, outcome, fetchCalls, timer, elapsed,
          response, sanitizerRuns, adapter, request, stored, settings, gitOutput, snapshot, prompt,
          cmd, inputBox, documents, invocations, lastDebugState, inputBoxes, shown, log,
          wizard>>

-----------------------------------------------------------------------------
(* Characters and character classes *)

BACKTICK == "U+0060"
FWCOLON == "U+FF1A"
EMOJI == "U+1F389"
LF == "\n"
CR == "\r"
TAB == "\t"
LSEP == "U+2028"
PSEP == "U+2029"

LowerLetters == <<"a","b","c","d","e","f","g","h","i","j","k","l","m",
                  "n","o","p","q","r","s","t","u","v","w","x","y","z">>
UpperLetters == <<"A","B","C","D","E","F","G","H","I","J","K","L","M",
                  "N","O","P","Q","R","S","T","U","V","W","X","Y","Z">>

Range(s) == {s[i] : i \in 1..Len(s)}

\* [a-zA-Z]
AsciiLetters == Range(LowerLetters) \cup Range(UpperLetters)
\* \d
Digits == {"0","1","2","3","4","5","6","7","8","9"}
\* \w without the i and u flags together
WordChars == AsciiLetters \cup Digits \cup {"_"}
\* the CJK letters the source names
CjkLetters == {"U+65B0","U+589E","U+6DFB","U+52A0","U+529F","U+80FD","U+4FEE",
               "U+590D","U+6B63","U+89E3","U+51B3","U+91CD","U+6784","U+4F18",
               "U+5316","U+6027","U+6587","U+6863","U+6D4B","U+8BD5","U+5EFA",
               "U+5DE5","U+7A0B","U+7EF4","U+62A4","U+914D","U+7F6E","U+56DE",
               "U+6EDA","U+64A4","U+9500","U+63D0","U+4EA4","U+4FE1","U+606F",
               "U+8BF4","U+660E","U+901F"}
\* [\p{L}\p{N}]
LettersAndNumbers == AsciiLetters \cup Digits \cup CjkLetters
\* the line terminators, which "." does not match
LineTerminators == {LF, CR, LSEP, PSEP}
\* \s, and what String.prototype.trim removes
WhiteSpace == {" ", TAB} \cup LineTerminators
\* the quote characters: apostrophe, double quote, backtick
Quotes == {"'", "\"", BACKTICK}
\* the ASCII colon and the full-width colon U+FF1A
Colons == {":", FWCOLON}

-----------------------------------------------------------------------------
(* String primitives *)

Drop(s, n) == SubSeq(s, n + 1, Len(s))
Take(s, n) == SubSeq(s, 1, n)

\* length of the longest prefix of s made of characters of S (a greedy X*)
LeadIn(s, S) ==
    CHOOSE n \in 0..Len(s) :
        /\ \A i \in 1..n : s[i] \in S
        /\ (n = Len(s) \/ s[n + 1] \notin S)

\* length of the longest suffix of s made of characters of S
TrailIn(s, S) ==
    CHOOSE n \in 0..Len(s) :
        /\ \A i \in (Len(s) - n + 1)..Len(s) : s[i] \in S
        /\ (n = Len(s) \/ s[Len(s) - n] \notin S)

\* String.prototype.trim
Trim(s) ==
    LET a == LeadIn(s, WhiteSpace)
        t == Drop(s, a)
    IN  Take(t, Len(t) - TrailIn(t, WhiteSpace))

\* String.prototype.startsWith
StartsWith(s, p) == Len(s) >= Len(p) /\ Take(s, Len(p)) = p

\* String.prototype.includes, and RegExp.test of a literal
Contains(s, p) == \E i \in 0..(Len(s) - Len(p)) : SubSeq(s, i + 1, i + Len(p)) = p

\* one character of String.prototype.toLowerCase
LowerOf(c) ==
    IF \E i \in 1..Len(UpperLetters) : UpperLetters[i] = c
    THEN LowerLetters[CHOOSE i \in 1..Len(UpperLetters) : UpperLetters[i] = c]
    ELSE c

\* String.prototype.toLowerCase
toLowerCase(s) == [i \in 1..Len(s) |-> LowerOf(s[i])]

\* /[\p{L}\p{N}]/u.test(s)
HasLetterOrNumber(s) == \E i \in 1..Len(s) : s[i] \in LettersAndNumbers


-----------------------------------------------------------------------------
(* The commit-text sanitizer: src/src/ai.ts, lines 293-435 *)

\* the literal words of the patterns
W_commit == <<"c","o","m","m","i","t">>
W_message == <<"m","e","s","s","a","g","e">>
\* U+63D0 U+4EA4, then U+4FE1 U+606F or U+8BF4 U+660E
W_tijiao == <<"U+63D0","U+4EA4">>
W_xinxi == <<"U+4FE1","U+606F">>
W_shuoming == <<"U+8BF4","U+660E">>

\* the code fence: three backticks
FenceAt(s, i) ==
    /\ i + 2 <= Len(s)
    /\ s[i] = BACKTICK /\ s[i + 1] = BACKTICK /\ s[i + 2] = BACKTICK

\* index of the leftmost code fence of s, 0 when there is none
FirstFence(s) ==
    IF \E i \in 1..Len(s) : FenceAt(s, i)
    THEN CHOOSE i \in 1..Len(s) : FenceAt(s, i) /\ \A j \in 1..(i - 1) : ~FenceAt(s, j)
    ELSE 0

\* raw.replace(/<fence>[a-zA-Z]*\s*/g, ''): every fence with the letters and the
\* white space that follow it, scanning left to right
RECURSIVE StripFenceOpeners(_)
StripFenceOpeners(s) ==
    LET i == FirstFence(s) IN
    IF i = 0 THEN s
    ELSE LET afterFence == Drop(s, i + 2)
             afterLang == Drop(afterFence, LeadIn(afterFence, AsciiLetters))
             afterWs == Drop(afterLang, LeadIn(afterLang, WhiteSpace))
         IN  Take(s, i - 1) \o StripFenceOpeners(afterWs)

\* .replace(/<fence>/g, '')
RECURSIVE StripFences(_)
StripFences(s) ==
    LET i == FirstFence(s) IN
    IF i = 0 THEN s
    ELSE Take(s, i - 1) \o StripFences(Drop(s, i + 2))

\* .split(/\r?\n/)
RECURSIVE SplitLines(_)
SplitLines(s) ==
    IF \E j \in 1..Len(s) : s[j] = LF
    THEN LET j == CHOOSE k \in 1..Len(s) : s[k] = LF /\ \A m \in 1..(k - 1) : s[m] # LF
             line == IF j > 1 /\ s[j - 1] = CR THEN Take(s, j - 2) ELSE Take(s, j - 1)
         IN  <<line>> \o SplitLines(Drop(s, j))
    ELSE <<s>>

\* line.replace(/^[quotes]+|[quotes]+$/g, ''): the leading and the trailing run of quotes
StripQuotes(s) ==
    LET t == Drop(s, LeadIn(s, Quotes))
    IN  Take(t, Len(t) - TrailIn(t, Quotes))

\* s with a greedy \s*[:\uFF1A]\s* removed from its start, or Unmatched
Unmatched == <<"<no match>">>
AfterColon(s) ==
    LET t == Drop(s, LeadIn(s, WhiteSpace))
    IN  IF Len(t) > 0 /\ t[1] \in Colons
        THEN Drop(t, 1 + LeadIn(Drop(t, 1), WhiteSpace))
        ELSE Unmatched

\* .replace(/^commit\s*message\s*[:\uFF1A]\s*/i, '')
StripEnglishLabel(s) ==
    IF StartsWith(toLowerCase(s), W_commit)
    THEN LET a == Drop(s, Len(W_commit))
             b == Drop(a, LeadIn(a, WhiteSpace))
         IN  IF StartsWith(toLowerCase(b), W_message)
                /\ AfterColon(Drop(b, Len(W_message))) # Unmatched
             THEN AfterColon(Drop(b, Len(W_message)))
             ELSE s
    ELSE s

\* .replace(/^\u63d0\u4ea4(?:\u4fe1\u606f|\u8bf4\u660e)\s*[:\uFF1A]\s*/u, '')
StripChineseLabel(s) ==
    IF StartsWith(s, W_tijiao \o W_xinxi) \/ StartsWith(s, W_tijiao \o W_shuoming)
    THEN IF AfterColon(Drop(s, 4)) # Unmatched THEN AfterColon(Drop(s, 4)) ELSE s
    ELSE s

\* the per-line map of extractCandidates
CleanLine(line) == Trim(StripChineseLabel(StripEnglishLabel(StripQuotes(line))))

NonEmptyLine(line) == Len(line) > 0

extractCandidates(text) ==
    LET cleaned == Trim(StripFences(StripFenceOpeners(text)))
        lines == SplitLines(cleaned)
    IN  SelectSeq([i \in 1..Len(lines) |-> CleanLine(lines[i])], NonEmptyLine)


\* length of the match of [a-zA-Z]+(?:\([^)]+\))?!? at the start of s, 0 when
\* s starts with no letter.  The letters are the maximal run; a scope is taken
\* when "(" is followed by at least one character other than ")" and then ")";
\* every pattern that follows this prefix in the source starts with white space
\* or a colon, so no shorter match of the prefix can succeed where this fails.
TypePrefixLen(s) ==
    LET n == LeadIn(s, AsciiLetters)
        hasScope ==
            /\ n < Len(s) /\ s[n + 1] = "("
            /\ \E j \in (n + 3)..Len(s) :
                   s[j] = ")" /\ \A k \in (n + 2)..(j - 1) : s[k] # ")"
        scopeEnd ==
            IF hasScope
            THEN CHOOSE j \in (n + 3)..Len(s) :
                     s[j] = ")" /\ \A k \in (n + 2)..(j - 1) : s[k] # ")"
            ELSE n
        bang == IF scopeEnd < Len(s) /\ s[scopeEnd + 1] = "!" THEN 1 ELSE 0
    IN  IF n = 0 THEN 0 ELSE scopeEnd + bang

\* r matches \s*(.+)$ : after some of its leading white space, a non-empty rest
\* without a line terminator ("." matches none, "$" is the end of the input)
MatchesWsDotPlus(r) ==
    \E k \in 0..LeadIn(r, WhiteSpace) :
        Len(r) > k /\ \A i \in (k + 1)..Len(r) : r[i] \notin LineTerminators

\* the group (.+) of \s*(.+)$, the white space taken greedily
WsDotPlusGroup(r) ==
    LET k == CHOOSE m \in 0..LeadIn(r, WhiteSpace) :
                 /\ Len(r) > m /\ \A i \in (m + 1)..Len(r) : r[i] \notin LineTerminators
                 /\ \A m2 \in (m + 1)..LeadIn(r, WhiteSpace) :
                        ~(Len(r) > m2 /\ \A i \in (m2 + 1)..Len(r) : r[i] \notin LineTerminators)
    IN  Drop(r, k)

\* t matches ^[a-zA-Z]+(?:\([^)]+\))?!?\s*[:\uFF1A]\s*.+$
MatchesEmbedded(t) ==
    LET p == TypePrefixLen(t)
        afterPrefix == Drop(t, p)
        w == LeadIn(afterPrefix, WhiteSpace)
    IN  /\ p > 0
        /\ Len(afterPrefix) > w
        /\ afterPrefix[w + 1] \in Colons
        /\ MatchesWsDotPlus(Drop(afterPrefix, w + 1))

\* \b before the letter s[i]: the character before it is no word character
WordStartAt(s, i) == i = 1 \/ s[i - 1] \notin WordChars

\* value.match(/\b([a-zA-Z]+(?:\([^)]+\))?!?\s*[:\uFF1A]\s*.+)$/u)?.[1] ?? value:
\* the suffix at the leftmost position where the pattern matches
EmbeddedCommit(value) ==
    LET Hit(i) == WordStartAt(value, i) /\ MatchesEmbedded(Drop(value, i - 1))
    IN  IF \E i \in 1..Len(value) : Hit(i)
        THEN Drop(value, (CHOOSE i \in 1..Len(value) :
                              Hit(i) /\ \A j \in 1..(i - 1) : ~Hit(j)) - 1)
        ELSE value

\* .replace(/^[-*]\s+/, '')
StripDashBullet(s) ==
    IF Len(s) >= 2 /\ s[1] \in {"-", "*"} /\ s[2] \in WhiteSpace
    THEN Drop(s, 1 + LeadIn(Drop(s, 1), WhiteSpace))
    ELSE s

\* .replace(/^\d+[.)]\s+/, '')
StripNumberBullet(s) ==
    LET d == LeadIn(s, Digits) IN
    IF d > 0 /\ Len(s) >= d + 2 /\ s[d + 1] \in {".", ")"} /\ s[d + 2] \in WhiteSpace
    THEN Drop(s, d + 1 + LeadIn(Drop(s, d + 1), WhiteSpace))
    ELSE s

\* .replace(/\uFF1A/g, ':')
NormalizeColons(s) == [i \in 1..Len(s) |-> IF s[i] = FWCOLON THEN ":" ELSE s[i]]

\* .replace(/^([a-zA-Z]+(?:\([^)]+\))?!?)\s*:\s*/, '$1: ')
CollapsePrefix(s) ==
    LET p == TypePrefixLen(s)
        afterPrefix == Drop(s, p)
        w == LeadIn(afterPrefix, WhiteSpace)
    IN  IF p > 0 /\ Len(afterPrefix) > w /\ afterPrefix[w + 1] = ":"
        THEN LET rest == Drop(afterPrefix, w + 1)
             IN  Take(s, p) \o <<":", " ">> \o Drop(rest, LeadIn(rest, WhiteSpace))
        ELSE s

normalizeCommitLine(value) ==
    LET embedded == EmbeddedCommit(value)
        strippedBullet == Trim(StripNumberBullet(StripDashBullet(embedded)))
        normalizedColon == NormalizeColons(strippedBullet)
        collapsedPrefix == CollapsePrefix(normalizedColon)
    IN  Trim(collapsedPrefix)


\* the mapping table of normalizeLocalizedType, in source order: the localized
\* words of each entry (in the order of its alternation) and its type
T_feat == <<"f","e","a","t">>
T_fix == <<"f","i","x">>
T_refactor == <<"r","e","f","a","c","t","o","r">>
T_perf == <<"p","e","r","f">>
T_docs == <<"d","o","c","s">>
T_test == <<"t","e","s","t">>
T_chore == <<"c","h","o","r","e">>
T_revert == <<"r","e","v","e","r","t">>

LocalizedMapping == <<
    [words |-> << <<"U+65B0","U+589E">>, <<"U+6DFB","U+52A0">>,
                  <<"U+65B0","U+529F","U+80FD">>, <<"U+529F","U+80FD">> >>, type |-> T_feat],
    [words |-> << <<"U+4FEE","U+590D">>, <<"U+4FEE","U+6B63">>, <<"U+89E3","U+51B3">> >>,
     type |-> T_fix],
    [words |-> << <<"U+91CD","U+6784">> >>, type |-> T_refactor],
    [words |-> << <<"U+4F18","U+5316">>, <<"U+6027","U+80FD","U+4F18","U+5316">> >>,
     type |-> T_perf],
    [words |-> << <<"U+6587","U+6863">> >>, type |-> T_docs],
    [words |-> << <<"U+6D4B","U+8BD5">> >>, type |-> T_test],
    [words |-> << <<"U+6784","U+5EFA">>, <<"U+5DE5","U+7A0B">>, <<"U+7EF4","U+62A4">>,
                  <<"U+914D","U+7F6E">> >>, type |-> T_chore],
    [words |-> << <<"U+56DE","U+6EDA">>, <<"U+64A4","U+9500">> >>, type |-> T_revert] >>

\* value matches ^(word)\s*[:\uFF1A]\s*(.+)$ for this word of an alternation
MatchesLocalized(value, word) ==
    /\ StartsWith(value, word)
    /\ LET a == Drop(value, Len(word))
           w == LeadIn(a, WhiteSpace)
       IN  Len(a) > w /\ a[w + 1] \in Colons /\ MatchesWsDotPlus(Drop(a, w + 1))

\* match[2] of that match
LocalizedSubject(value, word) ==
    LET a == Drop(value, Len(word))
        w == LeadIn(a, WhiteSpace)
    IN  WsDotPlusGroup(Drop(a, w + 1))

\* the alternation tries its words in order and backtracks to the next one
EntryMatches(value, entry) ==
    \E k \in 1..Len(entry.words) : MatchesLocalized(value, entry.words[k])

EntryWord(value, entry) ==
    entry.words[CHOOSE k \in 1..Len(entry.words) :
                    /\ MatchesLocalized(value, entry.words[k])
                    /\ \A j \in 1..(k - 1) : ~MatchesLocalized(value, entry.words[j])]

normalizeLocalizedType(value) ==
    IF \E e \in 1..Len(LocalizedMapping) : EntryMatches(value, LocalizedMapping[e])
    THEN LET e == CHOOSE n \in 1..Len(LocalizedMapping) :
                      /\ EntryMatches(value, LocalizedMapping[n])
                      /\ \A m \in 1..(n - 1) : ~EntryMatches(value, LocalizedMapping[m])
             entry == LocalizedMapping[e]
             subject == Trim(LocalizedSubject(value, EntryWord(value, entry)))
         IN  entry.type \o <<":", " ">> \o subject
    ELSE value

\* /^([a-zA-Z]+(?:\([^)]+\))?!?):\s*(.+)$/ and a subject with a letter or digit
isValidCommitLine(value) ==
    LET p == TypePrefixLen(value)
        rest == Drop(value, p + 1)
    IN  /\ p > 0
        /\ Len(value) > p
        /\ value[p + 1] = ":"
        /\ MatchesWsDotPlus(rest)
        /\ Len(Trim(WsDotPlusGroup(rest))) > 0
        /\ HasLetterOrNumber(Trim(WsDotPlusGroup(rest)))

\* the keyword lists of inferType, in source order
InferTable == <<
    [type |-> T_fix,
     keys |-> {<<"f","i","x">>, <<"b","u","g">>, <<"e","r","r","o","r">>,
               <<"U+4FEE","U+590D">>, <<"U+4FEE","U+6B63">>, <<"U+89E3","U+51B3">>}],
    [type |-> T_feat,
     keys |-> {<<"f","e","a","t">>, <<"a","d","d">>, <<"U+65B0","U+589E">>,
               <<"U+6DFB","U+52A0">>, <<"U+529F","U+80FD">>}],
    [type |-> T_perf,
     keys |-> {<<"p","e","r","f">>, <<"o","p","t","i","m","i">>, <<"U+6027","U+80FD">>,
               <<"U+63D0","U+901F">>, <<"U+52A0","U+901F">>}],
    [type |-> T_refactor,
     keys |-> {<<"r","e","f","a","c","t","o","r">>, <<"U+91CD","U+6784">>}],
    [type |-> T_docs,
     keys |-> {<<"d","o","c">>, <<"r","e","a","d","m","e">>, <<"U+6587","U+6863">>}],
    [type |-> T_test,
     keys |-> {<<"t","e","s","t">>, <<"s","p","e","c">>, <<"U+6D4B","U+8BD5">>}],
    [type |-> T_revert,
     keys |-> {<<"r","e","v","e","r","t">>, <<"U+56DE","U+6EDA">>, <<"U+64A4","U+9500">>}] >>

\* the inference letting the last keyword list with a hit decide
inferType_lastMatch(subject) ==
    LET lower == toLowerCase(subject)
        Hit(n) == \E k \in InferTable[n].keys : Contains(lower, k)
    IN  IF \E n \in 1..Len(InferTable) : Hit(n)
        THEN InferTable[CHOOSE n \in 1..Len(InferTable) :
                            Hit(n) /\ \A m \in (n + 1)..Len(InferTable) : ~Hit(m)].type
        ELSE T_chore

inferType(subject) ==
    LET lower == toLowerCase(subject)
        Hit(n) == \E k \in InferTable[n].keys : Contains(lower, k)
    IN  IF \E n \in 1..Len(InferTable) : Hit(n)
        THEN InferTable[CHOOSE n \in 1..Len(InferTable) :
                            Hit(n) /\ \A m \in 1..(n - 1) : ~Hit(m)].type
        ELSE T_chore

\* .replace(/^[a-zA-Z]+(?:\([^)]+\))?!?\s*[:\uFF1A]\s*/u, '')
StripTypePrefix(s) ==
    LET p == TypePrefixLen(s)
    IN  IF p > 0 /\ AfterColon(Drop(s, p)) # Unmatched THEN AfterColon(Drop(s, p)) ELSE s

\* undefined, the result of buildFallbackCommitLine without a usable subject
Undefined == <<"<undefined>">>

\* type and subject joined, from the first candidate with a letter or digit
fallbackFrom(subject) ==
    IF Len(subject) = 0 THEN Undefined
    ELSE inferType(subject) \o <<":", " ">> \o subject

\* candidates with their bullets removed
Unbulleted(candidates) ==
    [i \in 1..Len(candidates) |-> Trim(StripNumberBullet(StripDashBullet(candidates[i])))]

fallbackOf(stripped) ==
    IF \E i \in 1..Len(stripped) : HasLetterOrNumber(stripped[i])
    THEN fallbackFrom(Trim(StripQuotes(StripTypePrefix(
             stripped[CHOOSE i \in 1..Len(stripped) :
                          /\ HasLetterOrNumber(stripped[i])
                          /\ \A j \in 1..(i - 1) : ~HasLetterOrNumber(stripped[j])]))))
    ELSE Undefined

buildFallbackCommitLine(candidates) == fallbackOf(Unbulleted(candidates))

\* outcomes of sanitizeCommitText: the line returned, or the message thrown
Returned(line) == [threw |-> FALSE, value |-> line, message |-> ""]
Threw(msg) == [threw |-> TRUE, value |-> <<>>, message |-> msg]

MSG_EMPTY == "Generated commit message is empty."
MSG_INVALID == "Generated commit message is invalid or missing subject."

\* the normalized and localized form of one candidate
Localized(candidate) == normalizeLocalizedType(normalizeCommitLine(candidate))

\* sanitizeCommitText without its test for an empty list of candidates
firstValidOrFallback_noEmptyTest(candidates, lines, fallback) ==
    IF \E i \in 1..Len(lines) : isValidCommitLine(lines[i])
    THEN Returned(lines[CHOOSE i \in 1..Len(lines) :
                            /\ isValidCommitLine(lines[i])
                            /\ \A j \in 1..(i - 1) : ~isValidCommitLine(lines[j])])
    ELSE IF fallback # Undefined /\ isValidCommitLine(fallback)
    THEN Returned(fallback)
    ELSE Threw(MSG_INVALID)

\* the selection taking the last candidate that validates
firstValidOrFallback_lastValid(candidates, lines, fallback) ==
    IF Len(candidates) = 0 THEN Threw(MSG_EMPTY)
    ELSE IF \E i \in 1..Len(lines) : isValidCommitLine(lines[i])
    THEN Returned(lines[CHOOSE i \in 1..Len(lines) :
                            /\ isValidCommitLine(lines[i])
                            /\ \A j \in (i + 1)..Len(lines) : ~isValidCommitLine(lines[j])])
    ELSE IF fallback # Undefined /\ isValidCommitLine(fallback)
    THEN Returned(fallback)
    ELSE Threw(MSG_INVALID)

\* the return or throw of sanitizeCommitText, given the candidates, their
\* normalized and localized forms, and the fallback line
firstValidOrFallback(candidates, lines, fallback) ==
    IF Len(candidates) = 0 THEN Threw(MSG_EMPTY)
    ELSE IF \E i \in 1..Len(lines) : isValidCommitLine(lines[i])
    THEN Returned(lines[CHOOSE i \in 1..Len(lines) :
                            /\ isValidCommitLine(lines[i])
                            /\ \A j \in 1..(i - 1) : ~isValidCommitLine(lines[j])])
    ELSE IF fallback # Undefined /\ isValidCommitLine(fallback)
    THEN Returned(fallback)
    ELSE Threw(MSG_INVALID)

LocalizedAll(candidates) == [i \in 1..Len(candidates) |-> Localized(candidates[i])]

sanitizeOf(candidates) ==
    firstValidOrFallback(candidates, LocalizedAll(candidates),
                         buildFallbackCommitLine(candidates))

sanitizeCommitText(text) == sanitizeOf(extractCandidates(text))


-----------------------------------------------------------------------------
(* The sanitizer run on bounded raw texts *)

\* a raw model text is at most MaxAtoms pieces of RawAtoms, concatenated
MaxAtoms == 4

RawAtoms == {
    <<"f","i","x">>,
    <<"(","u","i",")">>,
    <<"(", CR, ")">>,
    <<":">>,
    <<" ">>,
    <<FWCOLON>>,
    <<LF>>,
    <<"\"">>,
    <<"-", " ">>,
    <<"U+65B0","U+589E">>,
    <<BACKTICK, BACKTICK, BACKTICK>>,
    <<"!">> }

RECURSIVE Flatten(_)
Flatten(pieces) ==
    IF pieces = <<>> THEN <<>> ELSE Head(pieces) \o Flatten(Tail(pieces))

RawTexts ==
    {Flatten(pieces) : pieces \in UNION {[1..n -> RawAtoms] : n \in 0..MaxAtoms}}

NotRun == [threw |-> FALSE, value |-> <<>>, message |-> "not run"]

-----------------------------------------------------------------------------
(* Configuration: src/src/types.ts and src/src/config.ts *)

\* an optional field: unset, or set to v
None == <<>>
Some(v) == <<v>>

Providers == {"openai", "deepseek", "gemini", "kimi", "glm", "custom"}

DEFAULT_BASE_URLS ==
    [p \in Providers \ {"custom"} |->
        CASE p = "openai" -> <<"h","t","t","p","s",":","/","/","a","p","i",".","o","p","e","n","a","i",".","c","o","m","/","v","1">>
          [] p = "deepseek" -> <<"h","t","t","p","s",":","/","/","a","p","i",".","d","e","e","p","s","e","e","k",".","c","o","m","/","v","1">>
          [] p = "gemini" -> <<"h","t","t","p","s",":","/","/","g","e","n","e","r","a","t","i","v","e","l","a","n","g","u","a","g","e",".","g","o","o","g","l","e","a","p","i","s",".","c","o","m">>
          [] p = "kimi" -> <<"h","t","t","p","s",":","/","/","a","p","i",".","m","o","o","n","s","h","o","t",".","c","n","/","v","1">>
          [] p = "glm" -> <<"h","t","t","p","s",":","/","/","o","p","e","n",".","b","i","g","m","o","d","e","l",".","c","n","/","a","p","i","/","p","a","a","s","/","v","4">>]

\* value.replace(/\/+$/, '')
stripTrailingSlashes(value) == Take(value, Len(value) - TrailIn(value, {"/"}))

resolveBaseUrl(cfg) ==
    IF Len(cfg.baseUrl) > 0 THEN stripTrailingSlashes(cfg.baseUrl)
    ELSE IF cfg.provider = "custom" THEN <<>>
    ELSE DEFAULT_BASE_URLS[cfg.provider]

\* the header names and values the configurations are drawn from
H_Authorization == <<"A","u","t","h","o","r","i","z","a","t","i","o","n">>
H_XApiKey == <<"X","-","A","P","I","-","K","E","Y">>
H_AuthorizationLower == <<"a","u","t","h","o","r","i","z","a","t","i","o","n">>
H_ContentType == <<"C","o","n","t","e","n","t","-","T","y","p","e">>
HeaderNames == {H_Authorization, H_AuthorizationLower, H_XApiKey, H_ContentType}
HeaderValueOf(name) ==
    CASE name = H_Authorization -> <<"B","e","a","r","e","r"," ","s","A">>
      [] name = H_AuthorizationLower -> <<"B","a","s","i","c"," ","s","B">>
      [] name = H_XApiKey -> <<"s","X">>
      [] OTHER -> <<"t","1">>

\* at most MaxExtraHeaders extra headers are configured
MaxExtraHeaders == 2
ExtraHeaderSets ==
    {[n \in S |-> HeaderValueOf(n)] :
        S \in {T \in SUBSET HeaderNames : Cardinality(T) <= MaxExtraHeaders}}

\* the timeout of a request, in ticks of the model's clock
RequestTimeoutTicks == 1

\* the configurations handed to generateCommitText: values of ExtensionConfig
\* (the fields the adapter reads).  The base URLs are none, only a slash, one
\* with a trailing slash, one with a query string, and one without a scheme
Configs ==
    [provider : Providers,
     model : {<<>>, <<"m">>},
     apiKey : {<<>>, <<"k","1">>},
     baseUrl : {<<>>, <<"/">>, <<"h","t","t","p","s",":","/","/","h","/","v","1","/">>, <<"h","t","t","p","s",":","/","/","h","/","p","?","x","=","1">>, <<"h","/","v","1">>},
     customRequestPath : {<<>>, <<"/","c","h","a","t","/","c","o","m","p","l","e","t","i","o","n","s">>},
     extraHeaders : ExtraHeaderSets,
     requestTimeoutMs : {RequestTimeoutTicks}]

\* the prompt handed to generateCommitText, and the sampling settings
Prompt == [systemPrompt |-> <<"s","y","s">>, userPrompt |-> <<"u","s","r">>]
Temperature == <<"0",".","2">>
MaxTokens == <<"n","u","l","l">>

\* hasHeader comparing the names as they are written
hasHeader_caseSensitive(headers, keyToFind) ==
    \E key \in DOMAIN headers : key = keyToFind

\* Object.keys(headers).some(key => key.toLowerCase() === keyToFind.toLowerCase())
hasHeader(headers, keyToFind) ==
    \E key \in DOMAIN headers : toLowerCase(key) = toLowerCase(keyToFind)

ERR_MODEL == "Model is empty. Configure gitgathom.model."
ERR_GEMINI_KEY == "Gemini requires API key. Configure gitgathom.apiKey or GEMINI_API_KEY."
ERR_NO_CREDENTIAL == "No API credential found. Configure gitgathom.apiKey or provide Authorization/X-Api-Key in gitgathom.extraHeaders."
ERR_CUSTOM_BASE == "Custom provider requires gitgathom.baseUrl."
ERR_BASE_OPENAI == "Missing base URL for OpenAI-compatible provider."
ERR_BASE_GEMINI == "Missing base URL for Gemini."
NoError == "<none>"

\* ensureConfig taking a credential header for gemini as it does for the others
ensureConfig_headerForGemini(cfg) ==
    LET hasAuthHeader ==
            hasHeader(cfg.extraHeaders, <<"a","u","t","h","o","r","i","z","a","t","i","o","n">>)
            \/ hasHeader(cfg.extraHeaders, <<"x","-","a","p","i","-","k","e","y">>)
    IN  IF Len(cfg.model) = 0 THEN ERR_MODEL
        ELSE IF Len(cfg.apiKey) = 0 /\ ~hasAuthHeader THEN ERR_NO_CREDENTIAL
        ELSE IF cfg.provider = "custom" /\ Len(resolveBaseUrl(cfg)) = 0 THEN ERR_CUSTOM_BASE
        ELSE NoError

\* the message ensureConfig throws, NoError when it returns
ensureConfig(cfg) ==
    LET hasAuthHeader ==
            hasHeader(cfg.extraHeaders, <<"a","u","t","h","o","r","i","z","a","t","i","o","n">>)
            \/ hasHeader(cfg.extraHeaders, <<"x","-","a","p","i","-","k","e","y">>)
    IN  IF Len(cfg.model) = 0 THEN ERR_MODEL
        ELSE IF cfg.provider = "gemini" /\ Len(cfg.apiKey) = 0 THEN ERR_GEMINI_KEY
        ELSE IF cfg.provider # "gemini" /\ Len(cfg.apiKey) = 0 /\ ~hasAuthHeader
        THEN ERR_NO_CREDENTIAL
        ELSE IF cfg.provider = "custom" /\ Len(resolveBaseUrl(cfg)) = 0 THEN ERR_CUSTOM_BASE
        ELSE NoError

-----------------------------------------------------------------------------
(* Building the request and its debug snapshot: src/src/ai.ts *)

\* index of the first c in s, 0 when there is none
IndexOf(s, c) ==
    IF \E i \in 1..Len(s) : s[i] = c
    THEN CHOOSE i \in 1..Len(s) : s[i] = c /\ \A j \in 1..(i - 1) : s[j] # c
    ELSE 0

\* String.prototype.endsWith
EndsWith(s, p) == Len(s) >= Len(p) /\ SubSeq(s, Len(s) - Len(p) + 1, Len(s)) = p

\* the characters encodeURIComponent and the form serializer escape, of those
\* that occur in the model; every other character is kept
PercentCode(c) ==
    CASE c = " " -> <<"%","2","0">> [] c = "/" -> <<"%","2","F">> [] c = "?" -> <<"%","3","F">> [] c = "&" -> <<"%","2","6">>
      [] c = "=" -> <<"%","3","D">> [] c = "#" -> <<"%","2","3">> [] c = ":" -> <<"%","3","A">> [] c = "+" -> <<"%","2","B">>
      [] OTHER -> <<c>>

RECURSIVE encodeURIComponent(_)
encodeURIComponent(s) ==
    IF s = <<>> THEN <<>> ELSE PercentCode(Head(s)) \o encodeURIComponent(Tail(s))

createOpenAiEndpoint(baseUrl, customPath) ==
    LET normalizedBase == stripTrailingSlashes(baseUrl)
    IN  IF EndsWith(normalizedBase, <<"/","c","h","a","t","/","c","o","m","p","l","e","t","i","o","n","s">>) THEN normalizedBase
        ELSE normalizedBase
             \o (IF StartsWith(customPath, <<"/">>) THEN customPath ELSE <<"/">> \o customPath)

\* the template literal of requestGemini
createGeminiEndpoint(baseUrl, model, apiKey) ==
    baseUrl \o <<"/","v","1","b","e","t","a","/","m","o","d","e","l","s","/">> \o encodeURIComponent(model)
    \o <<":","g","e","n","e","r","a","t","e","C","o","n","t","e","n","t","?","k","e","y","=">> \o encodeURIComponent(apiKey)

\* { 'Content-Type': 'application/json', ...config.extraHeaders }
MergeHeaders(extraHeaders) ==
    [n \in {H_ContentType} \cup DOMAIN extraHeaders |->
        IF n \in DOMAIN extraHeaders THEN extraHeaders[n] ELSE <<"a","p","p","l","i","c","a","t","i","o","n","/","j","s","o","n">>]

\* headers.Authorization = value
SetHeader(headers, name, value) ==
    [n \in DOMAIN headers \cup {name} |-> IF n = name THEN value ELSE headers[n]]

\* the headers with the test for an Authorization header made on the exact name
openAiHeaders_exactName(cfg) ==
    IF Len(cfg.apiKey) > 0 /\ H_Authorization \notin DOMAIN MergeHeaders(cfg.extraHeaders)
    THEN SetHeader(MergeHeaders(cfg.extraHeaders), H_Authorization,
                   <<"B","e","a","r","e","r"," ">> \o cfg.apiKey)
    ELSE MergeHeaders(cfg.extraHeaders)

openAiHeaders(cfg) ==
    LET headers == MergeHeaders(cfg.extraHeaders)
    IN  IF Len(cfg.apiKey) > 0 /\ ~hasHeader(headers, <<"a","u","t","h","o","r","i","z","a","t","i","o","n">>)
        THEN SetHeader(headers, H_Authorization, <<"B","e","a","r","e","r"," ">> \o cfg.apiKey)
        ELSE headers

openAiBody(cfg) ==
    [model |-> cfg.model,
     messages |-> <<[role |-> "system", content |-> Prompt.systemPrompt],
                    [role |-> "user", content |-> Prompt.userPrompt]>>,
     temperature |-> Temperature,
     max_tokens |-> MaxTokens]

geminiBody(cfg) ==
    [contents |-> <<[role |-> "user",
                     parts |-> <<[text |-> Prompt.systemPrompt \o <<LF, LF>>
                                            \o Prompt.userPrompt]>>]>>,
     generationConfig |-> [temperature |-> Temperature, maxOutputTokens |-> MaxTokens]]

MASK == <<"*","*","*">>

maskSecret(value) ==
    LET trimmed == Trim(value)
    IN  IF Len(trimmed) = 0 THEN MASK
        ELSE IF /\ StartsWith(toLowerCase(trimmed), <<"b","e","a","r","e","r">>)
                /\ Len(trimmed) > 6 /\ trimmed[7] \in WhiteSpace
        THEN <<"B","e","a","r","e","r"," ","*","*","*">>
        ELSE MASK

isSensitiveHeader(key) ==
    LET normalized == toLowerCase(key)
    IN  \/ normalized = <<"a","u","t","h","o","r","i","z","a","t","i","o","n">>
        \/ Contains(normalized, <<"a","p","i","-","k","e","y">>)
        \/ Contains(normalized, <<"t","o","k","e","n">>)

maskSensitiveHeaders(headers) ==
    [key \in DOMAIN headers |->
        IF isSensitiveHeader(key) THEN maskSecret(headers[key]) ELSE headers[key]]

SensitiveKeys == <<<<"k","e","y">>, <<"a","p","i","_","k","e","y">>, <<"t","o","k","e","n">>>>

\* new URL(endpoint) succeeds: an absolute URL, which here is one with the
\* http or https scheme and a host
UrlParses(endpoint) ==
    \E scheme \in {<<"h","t","t","p","s",":","/","/">>, <<"h","t","t","p",":","/","/">>} :
        /\ StartsWith(endpoint, scheme)
        /\ Len(endpoint) > Len(scheme)
        /\ endpoint[Len(scheme) + 1] \notin {"/", "?", "#"}

\* s.split(d)
RECURSIVE SplitOn(_, _)
SplitOn(s, d) ==
    LET i == IndexOf(s, d)
    IN  IF i = 0 THEN <<s>> ELSE <<Take(s, i - 1)>> \o SplitOn(Drop(s, i), d)

\* the name-value pairs of a query string (URLSearchParams): the non-empty
\* pieces between "&", each split at its first "="
QueryParams(query) ==
    LET pieces == SelectSeq(SplitOn(query, "&"), NonEmptyLine)
    IN  [i \in 1..Len(pieces) |->
            LET e == IndexOf(pieces[i], "=")
            IN  IF e = 0 THEN [name |-> pieces[i], value |-> <<>>]
                ELSE [name |-> Take(pieces[i], e - 1), value |-> Drop(pieces[i], e)]]

\* url.searchParams.set(key, value): the first pair named key gets the value,
\* the later pairs named key are removed
RECURSIVE SetParam(_, _, _, _)
SetParam(params, key, value, seen) ==
    IF params = <<>> THEN <<>>
    ELSE IF Head(params).name = key
         THEN (IF seen THEN <<>> ELSE <<[name |-> key, value |-> value]>>)
              \o SetParam(Tail(params), key, value, TRUE)
         ELSE <<Head(params)>> \o SetParam(Tail(params), key, value, seen)

RECURSIVE MaskParams(_, _)
MaskParams(params, keys) ==
    IF keys = <<>> THEN params
    ELSE MaskParams(
             IF \E i \in 1..Len(params) : params[i].name = Head(keys)
             THEN SetParam(params, Head(keys), MASK, FALSE)
             ELSE params,
             Tail(keys))

\* the application/x-www-form-urlencoded serializer
RECURSIVE SerializeParams(_)
SerializeParams(params) ==
    IF params = <<>> THEN <<>>
    ELSE encodeURIComponent(Head(params).name) \o <<"=">> \o encodeURIComponent(Head(params).value)
         \o (IF Len(params) > 1 THEN <<"&">> ELSE <<>>) \o SerializeParams(Tail(params))

\* endpoint.replace(/([?&](?:key|api_key|token)=)[^&]*/gi, '$1***')
RECURSIVE MaskByRegex(_)
MaskByRegex(s) ==
    LET Hit(i, k) ==
            /\ s[i] \in {"?", "&"}
            /\ Len(s) >= i + Len(SensitiveKeys[k]) + 1
            /\ toLowerCase(SubSeq(s, i + 1, i + Len(SensitiveKeys[k]))) = SensitiveKeys[k]
            /\ s[i + Len(SensitiveKeys[k]) + 1] = "="
        HitAt(i) == \E k \in 1..Len(SensitiveKeys) : Hit(i, k)
    IN  IF \E i \in 1..Len(s) : HitAt(i)
        THEN LET i == CHOOSE n \in 1..Len(s) : HitAt(n) /\ \A m \in 1..(n - 1) : ~HitAt(m)
                 k == CHOOSE n \in 1..Len(SensitiveKeys) : Hit(i, n)
                 keep == i + Len(SensitiveKeys[k]) + 1
                 rest == Drop(s, keep)
                 valueLen == IF IndexOf(rest, "&") = 0 THEN Len(rest)
                             ELSE IndexOf(rest, "&") - 1
             IN  Take(s, keep) \o MASK \o MaskByRegex(Drop(rest, valueLen))
        ELSE s

maskSensitiveQuery(endpoint) ==
    IF UrlParses(endpoint)
    THEN LET h == IndexOf(endpoint, "#")
             beforeHash == IF h = 0 THEN endpoint ELSE Take(endpoint, h - 1)
             hash == IF h = 0 THEN <<>> ELSE Drop(endpoint, h - 1)
             q == IndexOf(beforeHash, "?")
             params == QueryParams(Drop(beforeHash, q))
         IN  IF q = 0 \/ \A i \in 1..Len(params) : params[i].name \notin Range(SensitiveKeys)
             THEN endpoint
             ELSE Take(beforeHash, q)
                  \o SerializeParams(MaskParams(params, SensitiveKeys)) \o hash
    ELSE MaskByRegex(endpoint)

\* the snapshot as createDebugSnapshot returns it; createdAt, the time of the
\* call, is not part of the model
createDebugSnapshot(provider, model, endpoint, requestHeaders, requestBody) ==
    [provider |-> provider,
     model |-> model,
     endpoint |-> maskSensitiveQuery(endpoint),
     requestHeaders |-> maskSensitiveHeaders(requestHeaders),
     requestBody |-> requestBody,
     responseStatus |-> None,
     responseHeaders |-> None,
     responseBody |-> None,
     extractedText |-> None,
     normalizedCommitMessage |-> None,
     error |-> None]

-----------------------------------------------------------------------------
(* Responses and their JSON payloads *)

\* JSON values, and undefined, as JavaScript sees them
JUndef == [t |-> "undefined", v |-> <<>>]
JNull == [t |-> "null", v |-> <<>>]
JStr(s) == [t |-> "string", v |-> s]
JNum(digits) == [t |-> "number", v |-> digits]
JArr(a) == [t |-> "array", v |-> a]
JObj(o) == [t |-> "object", v |-> o]
\* a body JSON.parse rejects
JInvalid == [t |-> "invalid", v |-> <<>>]

Nullish(j) == j.t \in {"null", "undefined"}

\* j.key for a value that is not null or undefined
Get(j, key) == IF j.t = "object" /\ key \in DOMAIN j.v THEN j.v[key] ELSE JUndef

\* j?.key
OptGet(j, key) == IF Nullish(j) THEN JUndef ELSE Get(j, key)

\* j?.[0]
OptFirst(j) ==
    IF j.t = "array" /\ Len(j.v) > 0 THEN j.v[1]
    ELSE IF j.t = "string" /\ Len(j.v) > 0 THEN JStr(<<j.v[1]>>)
    ELSE IF j.t = "object" THEN Get(j, "0")
    ELSE JUndef

\* parts.join(sep) of texts
RECURSIVE Join(_, _)
Join(texts, sep) ==
    IF texts = <<>> THEN <<>>
    ELSE IF Len(texts) = 1 THEN texts[1]
    ELSE texts[1] \o sep \o Join(Tail(texts), sep)

\* String(j) for a value that is not null or undefined; the elements of an
\* array are strings and numbers
StringOf(j) ==
    CASE j.t \in {"string", "number"} -> j.v
      [] j.t = "array" -> Join([i \in 1..Len(j.v) |-> IF Nullish(j.v[i]) THEN <<>> ELSE j.v[i].v],
                               <<",">>)
      [] OTHER -> <<"[","o","b","j","e","c","t"," ","O","b","j","e","c","t","]">>

\* String(j ?? '')
StringOrEmpty(j) == IF Nullish(j) THEN <<>> ELSE StringOf(j)

\* error messages: a fixed text, or the HTTP message with its status and excerpt
ErrMsg(text) == [text |-> text, status |-> None, excerpt |-> None]
HttpMsg(status, excerpt) ==
    [text |-> "HTTP <status>: <excerpt>", status |-> Some(status), excerpt |-> Some(excerpt)]

MSG_NO_CONTENT == "Provider returned no message content."
MSG_GEMINI_NO_CONTENT == "Gemini returned no message content."
MSG_INVALID_JSON == "Provider returned invalid JSON payload."
MSG_TYPE_ERROR == "TypeError: Cannot read properties of null"
MSG_NOT_A_FUNCTION == "TypeError: parts.map is not a function"
MSG_ABORTED == "This operation was aborted"
MSG_FETCH_FAILED == "fetch failed"
MSG_BODY_FAILED == "terminated"

\* outcome of reading the assistant text out of a payload
Extracted(text) == [threw |-> FALSE, ai |-> FALSE, text |-> text, message |-> ""]
\* an AiRequestError constructed with the snapshot
ThrewAi(msg) == [threw |-> TRUE, ai |-> TRUE, text |-> <<>>, message |-> msg]
\* any other exception
ThrewOther(msg) == [threw |-> TRUE, ai |-> FALSE, text |-> <<>>, message |-> msg]

\* requestOpenAiCompatible, lines 128-152
extractOpenAi(payload) ==
    IF Nullish(payload) THEN ThrewOther(MSG_TYPE_ERROR)
    ELSE LET choices == Get(payload, "choices")
             firstChoice == IF Nullish(choices) THEN JUndef ELSE OptFirst(choices)
             message == OptGet(firstChoice, "message")
             content == OptGet(message, "content")
             PartText(part) ==
                 IF part.t = "object" /\ "text" \in DOMAIN part.v
                 THEN StringOrEmpty(part.v["text"])
                 ELSE <<>>
         IN  IF content.t = "string" THEN Extracted(content.v)
             ELSE IF content.t = "array"
                     /\ Len(Trim(Join([i \in 1..Len(content.v) |-> PartText(content.v[i])],
                                      <<LF>>))) > 0
             THEN Extracted(Trim(Join([i \in 1..Len(content.v) |-> PartText(content.v[i])],
                                      <<LF>>)))
             ELSE ThrewAi(MSG_NO_CONTENT)

\* requestGemini, lines 207-220
extractGemini(payload) ==
    IF Nullish(payload) THEN ThrewOther(MSG_TYPE_ERROR)
    ELSE LET candidates == Get(payload, "candidates")
             firstCandidate == IF Nullish(candidates) THEN JUndef ELSE OptFirst(candidates)
             content == OptGet(firstCandidate, "content")
             parts == OptGet(content, "parts")
         IN  IF Nullish(parts) THEN ThrewAi(MSG_GEMINI_NO_CONTENT)
             ELSE IF parts.t # "array" THEN ThrewOther(MSG_NOT_A_FUNCTION)
             ELSE IF \E i \in 1..Len(parts.v) : Nullish(parts.v[i])
             THEN ThrewOther(MSG_TYPE_ERROR)
             ELSE LET text == Trim(Join([i \in 1..Len(parts.v) |->
                                            StringOrEmpty(Get(parts.v[i], "text"))], <<LF>>))
                  IN  IF Len(text) = 0 THEN ThrewAi(MSG_GEMINI_NO_CONTENT)
                      ELSE Extracted(text)

\* a response body: the value JSON.parse gives for it and its length in characters
Body(payload, len) == [payload |-> payload, len |-> len]

MAX_DEBUG_RESPONSE_LENGTH == 20000
MAX_ERROR_EXCERPT_LENGTH == 600

\* truncate: the first maxLength characters and "...", which no longer parse
truncate(text, maxLength) ==
    IF text.len <= maxLength THEN text
    ELSE Body([t |-> "cut", v |-> <<text.payload>>], maxLength + 3)

-----------------------------------------------------------------------------
(* The responses a provider may give *)

\* an OpenAI-compatible payload with this message content
OpenAiPayload(content) ==
    JObj([choices |-> JArr(<<JObj([message |-> JObj([content |-> content])])>>)])

\* a Gemini payload with these parts
GeminiPayload(parts) ==
    JObj([candidates |-> JArr(<<JObj([content |-> JObj([parts |-> parts])])>>)])

EmptyObject == JObj(<<>>)

OpenAiContents == {
    JStr(<<"f","i","x",":"," ","x">>), JStr(<<"f","i","x",":","x",LF>>), JStr(<<>>), JStr(<<" ">>),
    JStr(<<EMOJI>>), JNum(<<"5">>), JNull,
    JArr(<<>>),
    JArr(<<JObj([type |-> JStr(<<"t","e","x","t">>), text |-> JStr(<<"f","i","x",":"," ","x">>)])>>),
    JArr(<<JObj([text |-> JStr(<<" ">>)])>>),
    JArr(<<JObj([image |-> JStr(<<"u">>)])>>),
    JArr(<<JObj([text |-> JNum(<<"5">>)])>>),
    JArr(<<JObj([text |-> JStr(<<"f","i","x",":"," ","x">>)]), JObj([image |-> JStr(<<"u">>)]),
           JObj([text |-> JStr(<<"y">>)])>>) }

GeminiParts == {
    JArr(<<JObj([text |-> JStr(<<"f","i","x",":"," ","x">>)])>>),
    JArr(<<JObj([text |-> JStr(<<" ">>)])>>),
    JArr(<<>>),
    JArr(<<EmptyObject>>),
    JArr(<<JNull>>),
    JStr(<<"x">>) }

Payloads ==
    {JInvalid, JNull, EmptyObject,
     JObj([choices |-> JArr(<<>>)]),
     JObj([choices |-> JArr(<<EmptyObject>>)]),
     JObj([choices |-> JArr(<<JObj([message |-> EmptyObject])>>)]),
     JObj([candidates |-> JArr(<<>>)]),
     JObj([candidates |-> JArr(<<EmptyObject>>)])}
    \cup {OpenAiPayload(c) : c \in OpenAiContents}
    \cup {GeminiPayload(q) : q \in GeminiParts}

\* every payload as a short body, and two long bodies
Bodies ==
    {Body(p, 12) : p \in Payloads}
    \cup {Body(JInvalid, 20001), Body(OpenAiPayload(JStr(<<"f","i","x",":"," ","x">>)), 700)}

Statuses == {200, 500}
\* response.ok
IsOk(status) == status >= 200 /\ status <= 299

ResponseHeaders == [n \in {<<"c","o","n","t","e","n","t","-","t","y","p","e">>} |-> <<"a","p","p","l","i","c","a","t","i","o","n","/","j","s","o","n">>]

\* collectHeaders: every header of the response, copied
collectHeaders(headers) == [n \in DOMAIN headers |-> headers[n]]

-----------------------------------------------------------------------------
(* generateCommitText: src/src/ai.ts, lines 24-281 *)

\* how an invocation settled
Pending == [kind |-> "pending", message |-> ErrMsg(""), commitMessage |-> None,
            debugAttached |-> FALSE]
\* a GenerateCommitResult; its debug is the snapshot of the invocation
Resolved(commitMessage) ==
    [kind |-> "returned", message |-> ErrMsg(""), commitMessage |-> Some(commitMessage),
     debugAttached |-> TRUE]
\* a plain Error
RejectedError(msg) ==
    [kind |-> "Error", message |-> msg, commitMessage |-> None, debugAttached |-> FALSE]
\* an AiRequestError, whose debug is the snapshot of the invocation
RejectedAi(msg) ==
    [kind |-> "AiRequestError", message |-> msg, commitMessage |-> None,
     debugAttached |-> TRUE]

Settled(out, dbg, ran) == [outcome |-> out, debug |-> dbg, ranSanitizer |-> ran]

\* asAiRequestError handing back any other exception as it came
asAiRequestError_rethrow(isAi, msg, dbg) ==
    IF isAi THEN Settled(RejectedAi(msg), dbg, FALSE)
    ELSE Settled(RejectedError(msg), dbg, FALSE)

\* asAiRequestError(error, debug) and the throw of its result: an
\* AiRequestError passes as it is, anything else is wrapped and recorded
asAiRequestError(isAi, msg, dbg) ==
    IF isAi THEN Settled(RejectedAi(msg), dbg, FALSE)
    ELSE Settled(RejectedAi(msg), [dbg EXCEPT !.error = Some(msg)], FALSE)

\* the two ways finalizeCommit ends, given what sanitizeCommitText produced
finalizeWith(result, extracted) ==
    IF result.threw
    THEN Settled(RejectedAi(ErrMsg(result.message)),
                 [extracted EXCEPT !.error = Some(ErrMsg(result.message))], TRUE)
    ELSE Settled(Resolved(result.value),
                 [extracted EXCEPT !.normalizedCommitMessage = Some(result.value)], TRUE)

\* finalizeCommit recording the trimmed text as the extracted one
finalizeCommit_trimmed(rawText, dbg) ==
    finalizeWith(sanitizeCommitText(rawText), [dbg EXCEPT !.extractedText = Some(Trim(rawText))])

finalizeCommit(rawText, dbg) ==
    finalizeWith(sanitizeCommitText(rawText), [dbg EXCEPT !.extractedText = Some(rawText)])

\* the request functions without their test of response.ok
handleBody_ignoringStatus(provider, status, text, dbg) ==
    IF text.payload = JInvalid
    THEN asAiRequestError(TRUE, ErrMsg(MSG_INVALID_JSON), dbg)
    ELSE LET ex == IF provider = "gemini" THEN extractGemini(text.payload)
                   ELSE extractOpenAi(text.payload)
         IN  IF ex.threw THEN asAiRequestError(ex.ai, ErrMsg(ex.message), dbg)
             ELSE finalizeCommit(ex.text, dbg)

\* what follows captureResponseDebug in requestOpenAiCompatible / requestGemini,
\* and finalizeCommit when a text was extracted
handleBody(provider, status, text, dbg) ==
    IF ~IsOk(status)
    THEN asAiRequestError(TRUE, HttpMsg(status, truncate(text, MAX_ERROR_EXCERPT_LENGTH)), dbg)
    ELSE IF text.payload = JInvalid
    THEN asAiRequestError(TRUE, ErrMsg(MSG_INVALID_JSON), dbg)
    ELSE LET ex == IF provider = "gemini" THEN extractGemini(text.payload)
                   ELSE extractOpenAi(text.payload)
         IN  IF ex.threw THEN asAiRequestError(ex.ai, ErrMsg(ex.message), dbg)
             ELSE finalizeCommit(ex.text, dbg)

\* one time step is as long as the model looks past the start of a request
MaxTime == 2

Cfg == config[1]
Snap == debug[1]

GenVarsIdle ==
    /\ pc = "idle"
    /\ config = None
    /\ debug = None
    /\ outcome = Pending
    /\ fetchCalls = 0
    /\ timer = "unset"
    /\ elapsed = 0
    /\ response = None
    /\ sanitizerRuns = 0
    /\ adapter = "none"
    /\ request = None

\* no session of several invocations, no report shown, the wizard closed
SessVarsIdle ==
    /\ invocations = <<>>
    /\ lastDebugState = None
    /\ inputBoxes = <<>>
    /\ shown = None
    /\ log = <<>>
    /\ wizard = "closed"

\* the prompt builder, the git collector and the command have not run
ExtVarsIdle ==
    /\ SessVarsIdle
    /\ stored = None
    /\ settings = None
    /\ gitOutput = None
    /\ snapshot = None
    /\ prompt = None
    /\ cmd = "idle"
    /\ inputBox = <<>>
    /\ documents = 0

Init ==
    /\ raw = <<>>
    /\ sanitized = NotRun
    /\ GenVarsIdle
    /\ ExtVarsIdle

sanVars == <<raw, sanitized>>
genVars == <<pc, config, debug, outcome, fetchCalls, timer, elapsed, response,
             sanitizerRuns, adapter, request>>
sessVars == <<invocations, lastDebugState, inputBoxes, shown, log, wizard>>
extVars == <<stored, settings, gitOutput, snapshot, prompt, cmd, inputBox, documents, sessVars>>

\* every provider sent down the OpenAI-compatible request function
RequestOf_openAiOnly(cfg) ==
    [endpoint |-> createOpenAiEndpoint(resolveBaseUrl(cfg), cfg.customRequestPath),
     headers |-> openAiHeaders(cfg),
     body |-> openAiBody(cfg)]

\* the endpoint, headers and body of the request of a configuration
RequestOf(cfg) ==
    IF cfg.provider = "gemini"
    THEN [endpoint |-> createGeminiEndpoint(resolveBaseUrl(cfg), cfg.model, cfg.apiKey),
          headers |-> MergeHeaders(cfg.extraHeaders),
          body |-> geminiBody(cfg)]
    ELSE [endpoint |-> createOpenAiEndpoint(resolveBaseUrl(cfg), cfg.customRequestPath),
          headers |-> openAiHeaders(cfg),
          body |-> openAiBody(cfg)]

\* generateCommitText up to its first await: ensureConfig, the dispatch on the
\* provider, the base URL check, the snapshot, and the call of fetch with the
\* timer of fetchWithTimeout armed
generateCommitText(cfg) ==
    LET failure == ensureConfig(cfg)
        built == RequestOf(cfg)
    IN  /\ config' = Some(cfg)
        /\ IF failure # NoError
           THEN /\ outcome' = RejectedError(ErrMsg(failure))
                /\ pc' = "done"
                /\ UNCHANGED <<debug, fetchCalls, timer, adapter, request>>
           ELSE /\ adapter' = IF cfg.provider = "gemini" THEN "gemini" ELSE "openai"
                /\ IF Len(resolveBaseUrl(cfg)) = 0
                   THEN /\ outcome' = RejectedError(ErrMsg(IF cfg.provider = "gemini"
                                                           THEN ERR_BASE_GEMINI
                                                           ELSE ERR_BASE_OPENAI))
                        /\ pc' = "done"
                        /\ UNCHANGED <<debug, fetchCalls, timer, request>>
                   ELSE /\ debug' = Some(createDebugSnapshot(cfg.provider, cfg.model,
                                                             built.endpoint,
                                                             built.headers,
                                                             built.body))
                        /\ request' = Some(built)
                        /\ fetchCalls' = fetchCalls + 1
                        /\ timer' = "armed"
                        /\ pc' = "fetching"
                        /\ UNCHANGED outcome
        /\ UNCHANGED <<elapsed, response, sanitizerRuns, sanVars>>

\* the extension calls generateCommitText with the configuration it read
Invoke ==
    /\ pc = "idle"
    /\ \E cfg \in Configs : generateCommitText(cfg)
    /\ UNCHANGED extVars

\* time passes while the invocation waits; a timer that is due runs first
Tick ==
    /\ pc \in {"fetching", "reading"}
    /\ elapsed < MaxTime
    /\ ~(timer = "armed" /\ elapsed >= Cfg.requestTimeoutMs)
    /\ elapsed' = elapsed + 1
    /\ UNCHANGED <<pc, config, debug, outcome, fetchCalls, timer, response,
                   sanitizerRuns, adapter, request, sanVars, extVars>>

\* the invocation ends with what asAiRequestError or finalizeCommit produced
Settle(s) ==
    /\ outcome' = s.outcome
    /\ debug' = Some(s.debug)
    /\ sanitizerRuns' = IF s.ranSanitizer THEN sanitizerRuns + 1 ELSE sanitizerRuns
    /\ pc' = "done"

\* fetch resolves with the status line and the headers: the finally of
\* fetchWithTimeout clears the timer, captureResponseDebug records status and
\* headers and awaits response.text()
FetchResolves ==
    /\ pc = "fetching"
    /\ timer' = "cleared"
    /\ \E status \in Statuses :
          /\ response' = Some([status |-> status, headers |-> ResponseHeaders,
                                body |-> None])
          /\ debug' = Some([Snap EXCEPT !.responseStatus = Some(status),
                                        !.responseHeaders = Some(collectHeaders(ResponseHeaders))])
    /\ pc' = "reading"
    /\ UNCHANGED <<config, outcome, fetchCalls, elapsed, sanitizerRuns, adapter, request, sanVars, extVars>>

\* fetch rejects (DNS, connection): the timer is cleared, the catch wraps the error
FetchRejects ==
    /\ pc = "fetching"
    /\ timer' = "cleared"
    /\ Settle(asAiRequestError(FALSE, ErrMsg(MSG_FETCH_FAILED), Snap))
    /\ UNCHANGED <<config, fetchCalls, elapsed, response, adapter, request, sanVars, extVars>>

\* a timeout answered by sending the request again
TimeoutAbort_retry ==
    /\ pc = "fetching"
    /\ timer = "armed"
    /\ elapsed >= Cfg.requestTimeoutMs
    /\ fetchCalls < 2
    /\ fetchCalls' = fetchCalls + 1
    /\ elapsed' = 0
    /\ UNCHANGED <<pc, config, debug, outcome, timer, response, sanitizerRuns, adapter, request,
                   sanVars, extVars>>

\* the timer of fetchWithTimeout runs: controller.abort() rejects the fetch
TimeoutAbort ==
    /\ pc = "fetching"
    /\ timer = "armed"
    /\ elapsed >= Cfg.requestTimeoutMs
    /\ timer' = "fired"
    /\ Settle(asAiRequestError(FALSE, ErrMsg(MSG_ABORTED), Snap))
    /\ UNCHANGED <<config, fetchCalls, elapsed, response, adapter, request, sanVars, extVars>>

\* response.text() resolves: captureResponseDebug stores the capped body, the
\* rest of the request function and finalizeCommit run
BodyArrives ==
    /\ pc = "reading"
    /\ \E text \in Bodies :
          /\ response' = Some([response[1] EXCEPT !.body = Some(text)])
          /\ Settle(handleBody(Cfg.provider, response[1].status, text,
                               [Snap EXCEPT !.responseBody =
                                                Some(truncate(text, MAX_DEBUG_RESPONSE_LENGTH))]))
    /\ UNCHANGED <<config, fetchCalls, timer, elapsed, adapter, request, sanVars, extVars>>

\* response.text() rejects: the body stream broke
BodyFails ==
    /\ pc = "reading"
    /\ Settle(asAiRequestError(FALSE, ErrMsg(MSG_BODY_FAILED), Snap))
    /\ UNCHANGED <<config, fetchCalls, timer, elapsed, response, adapter, request, sanVars, extVars>>

Next ==
    \/ Invoke
    \/ Tick
    \/ FetchResolves
    \/ FetchRejects
    \/ TimeoutAbort
    \/ BodyArrives
    \/ BodyFails

Spec == Init /\ [][Next]_vars

-----------------------------------------------------------------------------
(* The sanitizer as a run of its own: a raw text, then its outcome *)

InitSanitize ==
    /\ raw \in RawTexts
    /\ sanitized = NotRun
    /\ GenVarsIdle
    /\ ExtVarsIdle

RunSanitize ==
    /\ sanitized = NotRun
    /\ sanitized' = sanitizeCommitText(raw)
    /\ UNCHANGED <<raw, genVars, extVars>>

NextSanitize == RunSanitize

SpecSanitize == InitSanitize /\ [][NextSanitize]_vars

-----------------------------------------------------------------------------
(* Properties of the sanitizer *)

\* a line break inside a text: a line feed or a carriage return
HasLineBreak(s) == \E i \in 1..Len(s) : s[i] \in {LF, CR}

\* C1: whatever the raw text, a text that sanitizeCommitText returns is a single
\* line, without a line break, and passes the validation rule (letters, an
\* optional scope, an optional "!", a colon, a subject with a letter or digit)
C1_ReturnsSingleValidLine ==
    (sanitized # NotRun /\ ~sanitized.threw) =>
        /\ ~HasLineBreak(sanitized.value)
        /\ isValidCommitLine(sanitized.value)

-----------------------------------------------------------------------------
(* Properties of the precondition check *)

\* a header name that is Authorization or X-Api-Key, whatever its letter case
NamesCredential(name) ==
    toLowerCase(name) \in {<<"a","u","t","h","o","r","i","z","a","t","i","o","n">>, <<"x","-","a","p","i","-","k","e","y">>}

HasCredentialHeader(cfg) == \E name \in DOMAIN cfg.extraHeaders : NamesCredential(name)

\* the configurations that violate a precondition
PreconditionViolated(cfg) ==
    \/ cfg.model = <<>>
    \/ cfg.provider = "gemini" /\ cfg.apiKey = <<>>
    \/ cfg.provider # "gemini" /\ cfg.apiKey = <<>> /\ ~HasCredentialHeader(cfg)
    \/ cfg.provider = "custom" /\ resolveBaseUrl(cfg) = <<>>

\* C2: an invocation whose configuration violates a precondition is rejected
\* with no debug snapshot created and no fetch call made
C2_PreconditionFailureLeavesNoTrace ==
    (config # None /\ PreconditionViolated(Cfg)) =>
        /\ pc = "done"
        /\ outcome.kind = "Error"
        /\ debug = None
        /\ fetchCalls = 0

\* a gemini configuration with a model and an Authorization header but no
\* apiKey was rejected
C2_Witness ==
    /\ config # None
    /\ Cfg.provider = "gemini" /\ Cfg.model # <<>> /\ Cfg.apiKey = <<>>
    /\ H_Authorization \in DOMAIN Cfg.extraHeaders
    /\ pc = "done" /\ outcome.kind = "Error"

\* the condition under which the precondition check passes
PreconditionPasses(cfg) ==
    /\ cfg.model # <<>>
    /\ cfg.provider = "gemini" => cfg.apiKey # <<>>
    /\ cfg.provider # "gemini" => (cfg.apiKey # <<>> \/ HasCredentialHeader(cfg))
    /\ cfg.provider = "custom" => resolveBaseUrl(cfg) # <<>>

\* C3: generateCommitText gets past its precondition check (it dispatches to a
\* request function) exactly when the configuration has a model, a credential
\* of the kind its provider takes, and for custom a resolved base URL
C3_PassesExactlyWhen ==
    config # None => (adapter # "none" <=> PreconditionPasses(Cfg))

\* a configuration without apiKey passed on an upper-case X-API-KEY header alone
C3_Witness ==
    /\ config # None
    /\ Cfg.provider = "openai" /\ Cfg.apiKey = <<>>
    /\ DOMAIN Cfg.extraHeaders = {H_XApiKey}
    /\ adapter = "openai"

-----------------------------------------------------------------------------
(* Properties of the debug snapshot *)

\* the invocation is over and left a snapshot: returned in the result, or
\* attached to the AiRequestError
SnapshotHandedOut == pc = "done" /\ debug # None

\* the credentials of a configuration: its apiKey and the values of its
\* Authorization / X-Api-Key extra headers
Secrets(cfg) ==
    (IF cfg.apiKey # <<>> THEN {cfg.apiKey} ELSE {})
    \cup {cfg.extraHeaders[name] : name \in {n \in DOMAIN cfg.extraHeaders : NamesCredential(n)}}

\* C4: in a snapshot that generateCommitText returns or attaches to an error,
\* no requestHeaders value and not the endpoint contains the apiKey or the
\* original value of an Authorization / X-Api-Key extra header
C4_NoSecretInSnapshot ==
    SnapshotHandedOut =>
        \A secret \in Secrets(Cfg) :
            /\ ~Contains(Snap.endpoint, secret)
            /\ \A name \in DOMAIN Snap.requestHeaders :
                   ~Contains(Snap.requestHeaders[name], secret)

\* C5: when an invocation that created a snapshot is over, the error field of
\* the snapshot is set if and only if the invocation failed
C5_ErrorSetIffFailed ==
    SnapshotHandedOut => (Snap.error # None <=> outcome.kind # "returned")

-----------------------------------------------------------------------------
(* Properties of the failures *)

\* the invocation failed after ensureConfig had returned
FailedAfterPrecondition == pc = "done" /\ adapter # "none" /\ outcome.kind # "returned"

\* the error is an AiRequestError with the snapshot of the invocation, its
\* request fields populated and its response fields set only for a response
CarriesSnapshot ==
    /\ outcome.kind = "AiRequestError"
    /\ outcome.debugAttached
    /\ debug # None
    /\ Snap.endpoint # <<>>
    /\ DOMAIN Snap.requestHeaders # {}
    /\ DOMAIN Snap.requestBody # {}
    /\ Snap.responseStatus # None => response # None
    /\ Snap.responseBody # None => (response # None /\ response[1].body # None)

\* C6 as stated: every failure after the precondition check passed, a missing
\* base URL included, is an AiRequestError that carries the snapshot
C6_Original == FailedAfterPrecondition => CarriesSnapshot

\* C6: every failure after the precondition check passed and the base URL
\* resolved to a non-empty string (transport error, timeout, non-2xx status,
\* invalid JSON, no content, sanitization failure) is an AiRequestError that
\* carries the snapshot of the invocation, with endpoint, requestHeaders and
\* requestBody populated and responseStatus / responseBody set only if a
\* response was received
C6_FailureCarriesSnapshot ==
    (FailedAfterPrecondition /\ resolveBaseUrl(Cfg) # <<>>) => CarriesSnapshot

\* a fetch that rejected without a response ended the invocation
C6_Witness ==
    /\ FailedAfterPrecondition
    /\ resolveBaseUrl(Cfg) # <<>>
    /\ response = None
    /\ outcome.message = ErrMsg(MSG_FETCH_FAILED)
    /\ Snap.responseStatus = None

\* C7 as stated: at most one request per invocation, and exactly one when the
\* precondition check passes
C7_Original ==
    /\ fetchCalls <= 1
    /\ adapter # "none" => fetchCalls = 1

\* C7: an invocation makes at most one request, exactly one when the
\* precondition check passes and the base URL resolves to a non-empty string,
\* none otherwise, and no outcome makes a second one
C7_SingleRequest ==
    /\ fetchCalls <= 1
    /\ (adapter # "none" /\ resolveBaseUrl(Cfg) # <<>>) => fetchCalls = 1
    /\ (adapter # "none" /\ resolveBaseUrl(Cfg) = <<>>) => fetchCalls = 0
    /\ (config # None /\ adapter = "none") => fetchCalls = 0

\* the request timed out and the invocation ended after its one request
C7_Witness ==
    /\ pc = "done"
    /\ timer = "fired"
    /\ outcome.message = ErrMsg(MSG_ABORTED)
    /\ fetchCalls = 1

\* C8: an invocation does not wait on the provider, for the response or for
\* its body, longer than requestTimeoutMs, and the timer of the timeout is not
\* left armed once the fetch is over
C8_NoWaitBeyondTimeout ==
    /\ pc \in {"fetching", "reading"} => elapsed <= Cfg.requestTimeoutMs
    /\ pc \in {"reading", "done"} => timer # "armed"

\* the provider answered with a status that is not 2xx, and the invocation is over
NonOkAnswered == pc = "done" /\ response # None /\ ~IsOk(response[1].status)

\* C9 as stated: after a non-2xx status the failure message holds the status,
\* no commit message is produced, the sanitizer is not run, and the snapshot
\* holds responseStatus, responseHeaders and responseBody
C9_Original ==
    NonOkAnswered =>
        /\ outcome.kind = "AiRequestError"
        /\ outcome.message.status = Some(response[1].status)
        /\ outcome.commitMessage = None
        /\ sanitizerRuns = 0
        /\ Snap.responseStatus = Some(response[1].status)
        /\ Snap.responseHeaders = Some(response[1].headers)
        /\ Snap.responseBody # None

\* C9: after a non-2xx status generateCommitText fails, produces no commit
\* message and does not run the sanitizer, and the snapshot holds
\* responseStatus and responseHeaders; if the body of the response was read,
\* the message holds the HTTP status and the snapshot holds the body, capped
C9_NonOkFails ==
    NonOkAnswered =>
        /\ outcome.kind = "AiRequestError"
        /\ outcome.commitMessage = None
        /\ sanitizerRuns = 0
        /\ Snap.responseStatus = Some(response[1].status)
        /\ Snap.responseHeaders = Some(response[1].headers)
        /\ response[1].body # None =>
               /\ outcome.message.status = Some(response[1].status)
               /\ Snap.responseBody =
                      Some(truncate(response[1].body[1], MAX_DEBUG_RESPONSE_LENGTH))

\* a 500 whose body was a well-formed completion ended the invocation
C9_Witness ==
    /\ NonOkAnswered
    /\ response[1].body = Some(Body(OpenAiPayload(JStr(<<"f","i","x",":"," ","x">>)), 12))
    /\ outcome.message.status = Some(500)

\* the payloads without assistant text on the OpenAI-compatible path: no
\* choices, no message, no content, content that is the empty string, of
\* another type, or an array whose parts give nothing but white space
NoTextForOpenAi ==
    {EmptyObject,
     JObj([choices |-> JArr(<<>>)]),
     JObj([choices |-> JArr(<<EmptyObject>>)]),
     JObj([choices |-> JArr(<<JObj([message |-> EmptyObject])>>)]),
     JObj([candidates |-> JArr(<<>>)]),
     OpenAiPayload(JStr(<<>>)),
     OpenAiPayload(JNum(<<"5">>)),
     OpenAiPayload(JNull),
     OpenAiPayload(JArr(<<>>)),
     OpenAiPayload(JArr(<<JObj([text |-> JStr(<<" ">>)])>>)),
     OpenAiPayload(JArr(<<JObj([image |-> JStr(<<"u">>)])>>))}

\* the payloads without assistant text on the Gemini path: no candidates, no
\* content, no parts, or parts that give nothing but white space
NoTextForGemini ==
    {EmptyObject,
     JObj([candidates |-> JArr(<<>>)]),
     JObj([candidates |-> JArr(<<EmptyObject>>)]),
     JObj([choices |-> JArr(<<>>)]),
     GeminiPayload(JArr(<<>>)),
     GeminiPayload(JArr(<<EmptyObject>>)),
     GeminiPayload(JArr(<<JObj([text |-> JStr(<<" ">>)])>>))}

\* C10: a 2xx response whose JSON body holds no extractable assistant text
\* fails with the no-message-content error of its path, snapshot attached
C10_NoContentError ==
    (/\ pc = "done"
     /\ response # None
     /\ IsOk(response[1].status)
     /\ response[1].body # None
     /\ response[1].body[1].payload \in
            (IF adapter = "gemini" THEN NoTextForGemini ELSE NoTextForOpenAi))
    =>  /\ outcome.kind = "AiRequestError"
        /\ outcome.debugAttached
        /\ outcome.message =
               ErrMsg(IF adapter = "gemini" THEN MSG_GEMINI_NO_CONTENT ELSE MSG_NO_CONTENT)

-----------------------------------------------------------------------------
(* Properties of the dispatch *)

\* the request function that built the request of the snapshot, told by the
\* shape of the body it sent
BuiltByGemini == "contents" \in DOMAIN Snap.requestBody
BuiltByOpenAi == "messages" \in DOMAIN Snap.requestBody

\* the network calls of the invocation that have not ended
InFlight == IF pc \in {"fetching", "reading"} THEN fetchCalls ELSE 0

\* C11: provider gemini runs the Gemini request function and nothing else,
\* every other provider the OpenAI-compatible one and nothing else, and an
\* invocation never has two network calls in flight
C11_OnePathPerProvider ==
    /\ InFlight <= 1
    /\ (config # None /\ adapter # "none") =>
           /\ adapter = (IF Cfg.provider = "gemini" THEN "gemini" ELSE "openai")
           /\ debug # None =>
                  /\ BuiltByGemini <=> Cfg.provider = "gemini"
                  /\ BuiltByOpenAi <=> Cfg.provider # "gemini"

\* a gemini request is in flight
C11_Witness ==
    /\ pc = "fetching"
    /\ Cfg.provider = "gemini"
    /\ adapter = "gemini"
    /\ BuiltByGemini /\ ~BuiltByOpenAi
    /\ InFlight = 1

-----------------------------------------------------------------------------
(* Properties of finalizeCommit *)

\* the body that was read holds an OpenAI-compatible payload whose message
\* content is a string
StringContentRead ==
    /\ response # None
    /\ response[1].body # None
    /\ \E c \in OpenAiContents :
           c.t = "string" /\ response[1].body[1].payload = OpenAiPayload(c)

\* that string
StringContent == response[1].body[1].payload.v.choices.v[1].v.message.v.content.v

\* C12: on success extractedText is the assistant text as extracted (the
\* literal string for string content on the OpenAI-compatible path), the commit
\* message returned is normalizedCommitMessage, and error is unset; when the
\* sanitizer fails extractedText is set, normalizedCommitMessage is unset and
\* error holds the sanitizer's message
C12_SnapshotReflectsFinalize ==
    /\ (pc = "done" /\ outcome.kind = "returned") =>
           /\ Snap.extractedText # None
           /\ (adapter = "openai" /\ StringContentRead) =>
                  Snap.extractedText = Some(StringContent)
           /\ outcome.commitMessage # None
           /\ outcome.commitMessage = Snap.normalizedCommitMessage
           /\ Snap.error = None
    /\ (pc = "done" /\ sanitizerRuns > 0 /\ outcome.kind # "returned") =>
           /\ Snap.extractedText # None
           /\ (adapter = "openai" /\ StringContentRead) =>
                  Snap.extractedText = Some(StringContent)
           /\ Snap.normalizedCommitMessage = None
           /\ outcome.message.text \in {MSG_EMPTY, MSG_INVALID}
           /\ Snap.error = Some(outcome.message)

\* a string content with a trailing line feed was returned as a commit line
C12_Witness ==
    /\ pc = "done" /\ outcome.kind = "returned"
    /\ adapter = "openai" /\ StringContentRead
    /\ StringContent = <<"f","i","x",":","x",LF>>
    /\ outcome.commitMessage = Some(<<"f","i","x",":"," ","x">>)

-----------------------------------------------------------------------------
(* Properties of the sanitizer's errors *)

\* the sanitizer ran on the raw text and threw this message
SanitizerThrew(msg) == sanitized # NotRun /\ sanitized.threw /\ sanitized.message = msg

\* no normalized candidate validates, and the fallback line does not either
NothingValidates(candidates, fallback) ==
    /\ \A i \in 1..Len(candidates) : ~isValidCommitLine(Localized(candidates[i]))
    /\ fallback = Undefined \/ ~isValidCommitLine(fallback)

\* the error thrown agrees with the candidates extracted from the raw text
ErrorAgreesWith(candidates) ==
    /\ SanitizerThrew(MSG_EMPTY) <=> candidates = <<>>
    /\ SanitizerThrew(MSG_INVALID) <=>
           (candidates # <<>>
            /\ NothingValidates(candidates, buildFallbackCommitLine(candidates)))

\* C13: sanitizeCommitText throws the empty error exactly when no candidate
\* line is extracted from the raw text (always so for an empty or white-space
\* text), the invalid error exactly when there are candidates but no normalized
\* candidate and no fallback line validates, and no other error
C13_ErrorsExactlyWhen ==
    sanitized # NotRun =>
        /\ ErrorAgreesWith(extractCandidates(raw))
        /\ (\A i \in 1..Len(raw) : raw[i] \in WhiteSpace) => SanitizerThrew(MSG_EMPTY)
        /\ sanitized.threw => sanitized.message \in {MSG_EMPTY, MSG_INVALID}

\* "fix:!" as the only line: a type and a subject without letter or digit
C13_Witness ==
    /\ raw = <<"f","i","x",":","!">>
    /\ SanitizerThrew(MSG_INVALID)


-----------------------------------------------------------------------------
(* The settings outside the adapter: src/src/types.ts, src/src/config.ts *)

\* an ExtensionConfig as readConfig fills it when nothing is configured; the
\* fields the adapter reads are those of Configs
DefaultSettings ==
    [language |-> "zh",
     systemPrompt |-> <<"s","y","s">>,
     ruleTemplate |-> <<LF>> \o <<"r","u","l","e">>,
     additionalRules |-> <<>>,
     detailedOutput |-> TRUE,
     includeOnlyStaged |-> FALSE,
     truncateDiff |-> TRUE,
     maxDiffBytes |-> 120000,
     copyToClipboard |-> FALSE,
     debugView |-> FALSE]

-----------------------------------------------------------------------------
(* buildPrompt: src/unnamed/part_001 *)

\* a fixed sentence of the source is written as one token of the text
TaskDetailed == <<"Task: Create one detailed git commit message based on the repository changes.">>
TaskConcise == <<"Task: Create one concise git commit message based on the repository changes.">>
LanguageZh == <<"zh: language requirement">>
LanguageEn == <<"Language requirement: Output must be in English.">>
ConstraintsZhDetailed == <<"zh: output constraints, detailed">>
ConstraintsZhConcise == <<"zh: output constraints, concise">>
ConstraintsEnDetailed == <<"Output constraints: ... describe one concrete change ...">>
ConstraintsEnConcise == <<"Output constraints: ... summarize one change in a single sentence ...">>
NoDiffProvided == <<"(no diff provided)">>
TruncatedNote == <<"Note: Diff content was truncated for performance limits.">>

\* the decimal digits of a natural number, as a template literal prints it
RECURSIVE DecimalOf(_)
DecimalOf(n) ==
    LET digit == <<"0","1","2","3","4","5","6","7","8","9">>[(n % 10) + 1]
    IN  IF n < 10 THEN <<digit>> ELSE DecimalOf(n \div 10) \o <<digit>>

FileLimitNote(included, total) ==
    <<"N","o","t","e",":"," ","C","h","a","n","g","e","d"," ","f","i","l","e","s"," ","w","e","r","e"," ","l","i","m","i","t","e","d"," ","t","o"," ">> \o DecimalOf(included) \o <<"/">>
    \o DecimalOf(total) \o <<" ","b","y"," ","m","a","x","C","h","a","n","g","e","d","F","i","l","e","s",".">>

\* the sections with the truncation note put before the file limit note
PromptSections_truncationFirst(snap, cfg) ==
    <<IF cfg.detailedOutput THEN TaskDetailed ELSE TaskConcise>>
    \o <<<<"R","u","l","e","s",":">> \o <<LF>> \o cfg.ruleTemplate>>
    \o (IF Len(Trim(cfg.additionalRules)) > 0
        THEN <<<<"A","d","d","i","t","i","o","n","a","l"," ","r","u","l","e","s",":">> \o <<LF>> \o Trim(cfg.additionalRules)>> ELSE <<>>)
    \o (IF cfg.language = "zh"
        THEN <<LanguageZh,
               IF cfg.detailedOutput THEN ConstraintsZhDetailed ELSE ConstraintsZhConcise>>
        ELSE <<LanguageEn,
               IF cfg.detailedOutput THEN ConstraintsEnDetailed ELSE ConstraintsEnConcise>>)
    \o (IF Len(Trim(snap.status)) > 0
        THEN <<<<"G","i","t"," ","s","t","a","t","u","s"," ","(","s","h","o","r","t",")",":">> \o <<LF>> \o snap.status>> ELSE <<>>)
    \o <<<<"G","i","t"," ","d","i","f","f",":">> \o <<LF>> \o (IF Len(snap.diff) > 0 THEN snap.diff ELSE NoDiffProvided)>>
    \o (IF snap.wasTruncated THEN <<TruncatedNote>> ELSE <<>>)
    \o (IF snap.wasFileLimited
        THEN <<FileLimitNote(snap.includedChangedFiles, snap.totalChangedFiles)>> ELSE <<>>)

\* the sections pushed one after another, absent ones left out
PromptSections(snap, cfg) ==
    <<IF cfg.detailedOutput THEN TaskDetailed ELSE TaskConcise>>
    \o <<<<"R","u","l","e","s",":">> \o <<LF>> \o cfg.ruleTemplate>>
    \o (IF Len(Trim(cfg.additionalRules)) > 0
        THEN <<<<"A","d","d","i","t","i","o","n","a","l"," ","r","u","l","e","s",":">> \o <<LF>> \o Trim(cfg.additionalRules)>> ELSE <<>>)
    \o (IF cfg.language = "zh"
        THEN <<LanguageZh,
               IF cfg.detailedOutput THEN ConstraintsZhDetailed ELSE ConstraintsZhConcise>>
        ELSE <<LanguageEn,
               IF cfg.detailedOutput THEN ConstraintsEnDetailed ELSE ConstraintsEnConcise>>)
    \o (IF Len(Trim(snap.status)) > 0
        THEN <<<<"G","i","t"," ","s","t","a","t","u","s"," ","(","s","h","o","r","t",")",":">> \o <<LF>> \o snap.status>> ELSE <<>>)
    \o <<<<"G","i","t"," ","d","i","f","f",":">> \o <<LF>> \o (IF Len(snap.diff) > 0 THEN snap.diff ELSE NoDiffProvided)>>
    \o (IF snap.wasFileLimited
        THEN <<FileLimitNote(snap.includedChangedFiles, snap.totalChangedFiles)>> ELSE <<>>)
    \o (IF snap.wasTruncated THEN <<TruncatedNote>> ELSE <<>>)

\* buildPrompt taking the system prompt from the rule template
buildPrompt_systemFromRules(snap, cfg) ==
    [systemPrompt |-> cfg.ruleTemplate,
     userPrompt |-> Join(PromptSections(snap, cfg), <<LF, LF>>)]

buildPrompt(snap, cfg) ==
    [systemPrompt |-> cfg.systemPrompt,
     userPrompt |-> Join(PromptSections(snap, cfg), <<LF, LF>>)]

\* the configurations and snapshots buildPrompt is called with
PromptSettings ==
    {[DefaultSettings EXCEPT !.language = l, !.detailedOutput = d, !.systemPrompt = s,
                             !.additionalRules = a] :
        l \in {"zh", "en"}, d \in BOOLEAN, s \in {<<"s","y","s">>, <<"Y","o","u"," ","a","r","e">>},
        a \in {<<>>, <<" ">>, <<" ","n","o"," ","e","m","o","j","i"," ">>}}

Snapshots ==
    {[status |-> st, diff |-> df, wasTruncated |-> tr, wasFileLimited |-> fl,
      totalChangedFiles |-> IF fl THEN 12 ELSE 1, includedChangedFiles |-> 1] :
        st \in {<<>>, <<LF>>, <<"M"," ","a",".","t","s">>}, df \in {<<>>, <<"#"," ","S","t","a","g","e","d"," ","c","h","a","n","g","e","s">> \o <<LF, LF>> \o <<"+","x">>},
        tr \in BOOLEAN, fl \in BOOLEAN}

InitPrompt ==
    /\ raw = <<>>
    /\ sanitized = NotRun
    /\ GenVarsIdle
    /\ stored = None
    /\ settings \in {Some(c) : c \in PromptSettings}
    /\ snapshot \in {Some(s) : s \in Snapshots}
    /\ gitOutput = None
    /\ prompt = None
    /\ cmd = "idle"
    /\ inputBox = <<>>
    /\ documents = 0
    /\ SessVarsIdle

\* the call of buildPrompt(snapshot, config)
BuildPrompt ==
    /\ prompt = None
    /\ prompt' = Some(buildPrompt(snapshot[1], settings[1]))
    /\ UNCHANGED <<sanVars, genVars, stored, settings, gitOutput, snapshot, cmd, inputBox,
                   documents, sessVars>>

NextPrompt == BuildPrompt

SpecPrompt == InitPrompt /\ [][NextPrompt]_vars

-----------------------------------------------------------------------------
(* C14 *)

\* a text: a sequence of characters and sentence tokens
IsText(t) == DOMAIN t = 1..Len(t) /\ \A i \in 1..Len(t) : t[i] \in STRING

\* the user prompt closes with the diff section and the notes that follow it
EndsWithDiffSection(snap, text) ==
    LET tail == (IF snap.wasFileLimited
                 THEN <<LF, LF>> \o FileLimitNote(snap.includedChangedFiles,
                                                  snap.totalChangedFiles) ELSE <<>>)
                \o (IF snap.wasTruncated THEN <<LF, LF>> \o TruncatedNote ELSE <<>>)
    IN  EndsWith(text, <<"G","i","t"," ","d","i","f","f",":">> \o <<LF>>
                       \o (IF snap.diff = <<>> THEN NoDiffProvided ELSE snap.diff) \o tail)

PayloadProduced ==
    prompt # None =>
        /\ DOMAIN prompt[1] = {"systemPrompt", "userPrompt"}
        /\ prompt[1].systemPrompt = settings[1].systemPrompt
        /\ IsText(prompt[1].userPrompt)
        /\ EndsWithDiffSection(snapshot[1], prompt[1].userPrompt)

\* C14: buildPrompt returns a payload for every snapshot and configuration,
\* also for an empty diff and an empty status; the payload's systemPrompt is
\* exactly config.systemPrompt, its userPrompt is a text that closes with the
\* diff section (the words "(no diff provided)" for an empty diff); the call
\* changes neither the snapshot nor the configuration
C14_BuildPromptPure ==
    /\ []PayloadProduced
    /\ [][BuildPrompt => (snapshot' = snapshot /\ settings' = settings)]_vars

C14_Witness ==
    /\ prompt # None
    /\ snapshot[1].diff = <<>>
    /\ snapshot[1].status = <<>>
    /\ settings[1].systemPrompt = <<"Y","o","u"," ","a","r","e">>
    /\ prompt[1].systemPrompt = <<"Y","o","u"," ","a","r","e">>

-----------------------------------------------------------------------------
(* readConfig: src/src/config.ts, lines 146-178 and 300-315 *)

DEFAULT_MODELS ==
    [p \in Providers |->
        CASE p = "openai" -> <<"g","p","t","-","4","o","-","m","i","n","i">>
          [] p = "deepseek" -> <<"d","e","e","p","s","e","e","k","-","c","h","a","t">>
          [] p = "gemini" -> <<"g","e","m","i","n","i","-","2",".","0","-","f","l","a","s","h">>
          [] p = "kimi" -> <<"m","o","o","n","s","h","o","t","-","v","1","-","8","k">>
          [] p = "glm" -> <<"g","l","m","-","4","-","f","l","a","s","h">>
          [] p = "custom" -> <<"g","p","t","-","4","o","-","m","i","n","i">>]

ensureLeadingSlash(value) ==
    LET trimmed == Trim(value)
    IN  IF Len(trimmed) = 0 THEN <<>>
        ELSE IF StartsWith(trimmed, <<"/">>) THEN trimmed ELSE <<"/">> \o trimmed

\* resolveRequestPath giving the default path to every provider
resolveRequestPath_defaultForAll(provider, configuredPath) ==
    IF Len(ensureLeadingSlash(configuredPath)) > 0 THEN ensureLeadingSlash(configuredPath)
    ELSE <<"/","c","h","a","t","/","c","o","m","p","l","e","t","i","o","n","s">>

resolveRequestPath(provider, configuredPath) ==
    IF Len(ensureLeadingSlash(configuredPath)) > 0 THEN ensureLeadingSlash(configuredPath)
    ELSE IF provider = "openai" THEN <<"/","c","h","a","t","/","c","o","m","p","l","e","t","i","o","n","s">> ELSE <<>>

\* what the user stored under gitgathom.*: the provider, the API key, the
\* base URL, the request path, the extra headers and debugView; no model is
\* stored, and no key is exported in the environment
StoredSettings ==
    [provider : Providers,
     debugView : BOOLEAN,
     model : {<<>>},
     apiKey : {<<>>, <<"k","1">>},
     baseUrl : {<<>>, <<" ","/"," ">>, <<"h","t","t","p","s",":","/","/","h","/","v","1","/">>, <<"h","t","t","p","s",":","/","/","h","/","v","1","/","c","h","a","t","/","c","o","m","p","l","e","t","i","o","n","s","/">>},
     customRequestPath : {<<>>, <<"c","h","a","t"," ">>},
     extraHeaders : ExtraHeaderSets]

\* the fields of readConfig's result that the adapter and getSetupIssue read
readConfig(workspace) ==
    [provider |-> workspace.provider,
     model |-> IF Len(Trim(workspace.model)) > 0 THEN Trim(workspace.model)
               ELSE DEFAULT_MODELS[workspace.provider],
     apiKey |-> Trim(workspace.apiKey),
     baseUrl |-> Trim(workspace.baseUrl),
     customRequestPath |-> resolveRequestPath(workspace.provider, Trim(workspace.customRequestPath)),
     extraHeaders |-> workspace.extraHeaders,
     requestTimeoutMs |-> RequestTimeoutTicks]

-----------------------------------------------------------------------------
(* The generate command: src/src/extension.ts, runGenerateCommitMessage *)

\* getSetupIssue: the issue it returns, "none" for undefined
getSetupIssue(cfg) ==
    IF cfg.provider = "custom" /\ Len(Trim(cfg.baseUrl)) = 0 THEN "setupMissingBaseUrl"
    ELSE IF (IF cfg.provider = "gemini" THEN Len(cfg.apiKey) > 0
             ELSE \/ Len(cfg.apiKey) > 0
                  \/ hasHeader(cfg.extraHeaders, <<"a","u","t","h","o","r","i","z","a","t","i","o","n">>)
                  \/ hasHeader(cfg.extraHeaders, <<"x","-","a","p","i","-","k","e","y">>))
    THEN "none"
    ELSE "setupMissingCredential"

\* what the input box held before the command ran
PriorInput == <<"w","i","p">>

\* the snapshots collectRepositoryChanges hands to the command: a clean
\* working tree, and one changed file
CommandSnapshots ==
    {s \in Snapshots : /\ ~s.wasTruncated /\ ~s.wasFileLimited
                       /\ (s.status = <<>>) = (s.diff = <<>>)}

InitCommand ==
    /\ raw = <<>>
    /\ sanitized = NotRun
    /\ GenVarsIdle
    /\ stored \in {Some(s) : s \in StoredSettings}
    /\ settings = None
    /\ gitOutput = None
    /\ snapshot = None
    /\ prompt = None
    /\ cmd = "idle"
    /\ inputBox = PriorInput
    /\ documents = 0
    /\ SessVarsIdle

cmdFrame == <<sanVars, pc, debug, outcome, fetchCalls, timer, elapsed, response,
              sanitizerRuns, adapter, request, stored, sessVars>>

\* readConfig and getSetupIssue; a setup issue ends the command after the prompt
CmdStart ==
    /\ cmd = "idle"
    /\ config' = Some(readConfig(stored[1]))
    /\ settings' = Some([DefaultSettings EXCEPT !.debugView = stored[1].debugView])
    /\ cmd' = IF getSetupIssue(readConfig(stored[1])) # "none" THEN "done:setup"
              ELSE "gitApi"
    /\ UNCHANGED <<cmdFrame, gitOutput, snapshot, prompt, inputBox, documents>>

\* getGitApi() gives undefined
CmdGitUnavailable ==
    /\ cmd = "gitApi"
    /\ cmd' = "done:gitUnavailable"
    /\ UNCHANGED <<cmdFrame, config, settings, gitOutput, snapshot, prompt, inputBox, documents>>

\* pickRepository gives undefined
CmdNoRepository ==
    /\ cmd = "gitApi"
    /\ cmd' = "done:noRepo"
    /\ UNCHANGED <<cmdFrame, config, settings, gitOutput, snapshot, prompt, inputBox, documents>>

\* a git command of collectRepositoryChanges fails: the outer catch reports it
CmdCollectFails ==
    /\ cmd = "gitApi"
    /\ cmd' = "done:failed"
    /\ UNCHANGED <<cmdFrame, config, settings, gitOutput, snapshot, prompt, inputBox, documents>>

\* the snapshot has an empty status
CmdNoChanges ==
    /\ cmd = "gitApi"
    /\ \E s \in CommandSnapshots :
          /\ Len(Trim(s.status)) = 0
          /\ snapshot' = Some(s)
    /\ cmd' = "done:noChanges"
    /\ UNCHANGED <<cmdFrame, config, settings, gitOutput, prompt, inputBox, documents>>

\* the command generating whatever the status is
CmdGenerate_anyStatus ==
    /\ cmd = "gitApi"
    /\ \E s \in CommandSnapshots :
          /\ snapshot' = Some(s)
          /\ prompt' = Some(buildPrompt(s, settings[1]))
    /\ generateCommitText(Cfg)
    /\ cmd' = "generating"
    /\ UNCHANGED <<stored, settings, gitOutput, inputBox, documents, sessVars>>

\* the snapshot has changes: buildPrompt, then the call of generateCommitText,
\* which runs up to its first await
CmdGenerate ==
    /\ cmd = "gitApi"
    /\ \E s \in CommandSnapshots :
          /\ Len(Trim(s.status)) > 0
          /\ snapshot' = Some(s)
          /\ prompt' = Some(buildPrompt(s, settings[1]))
    /\ generateCommitText(Cfg)
    /\ cmd' = "generating"
    /\ UNCHANGED <<stored, settings, gitOutput, inputBox, documents, sessVars>>

\* the command writing the input box also when the generation failed
CmdFailed_writesInput ==
    /\ cmd = "generating"
    /\ pc = "done"
    /\ outcome.kind \in {"Error", "AiRequestError"}
    /\ inputBox' = <<>>
    /\ documents' = IF outcome.kind = "AiRequestError" /\ settings[1].debugView
                    THEN documents + 1 ELSE documents
    /\ cmd' = "done:failed"
    /\ UNCHANGED <<cmdFrame, config, settings, gitOutput, snapshot, prompt>>

\* generateCommitText threw: an AiRequestError is kept for the debug report
\* and shown if debugView is on; the error is thrown on to the outer catch
CmdFailed ==
    /\ cmd = "generating"
    /\ pc = "done"
    /\ outcome.kind \in {"Error", "AiRequestError"}
    /\ documents' = IF outcome.kind = "AiRequestError" /\ settings[1].debugView
                    THEN documents + 1 ELSE documents
    /\ cmd' = "done:failed"
    /\ UNCHANGED <<cmdFrame, config, settings, gitOutput, snapshot, prompt, inputBox>>

\* generateCommitText returned: the input box is written, the debug document
\* opened if debugView is on
CmdSucceeded ==
    /\ cmd = "generating"
    /\ pc = "done"
    /\ outcome.kind = "returned"
    /\ inputBox' = outcome.commitMessage[1]
    /\ documents' = IF settings[1].debugView THEN documents + 1 ELSE documents
    /\ cmd' = "done:generated"
    /\ UNCHANGED <<cmdFrame, config, settings, gitOutput, snapshot, prompt>>

NextCommand ==
    \/ CmdStart
    \/ CmdGitUnavailable
    \/ CmdNoRepository
    \/ CmdCollectFails
    \/ CmdNoChanges
    \/ CmdGenerate
    \/ Tick
    \/ FetchResolves
    \/ FetchRejects
    \/ TimeoutAbort
    \/ BodyArrives
    \/ BodyFails
    \/ CmdFailed
    \/ CmdSucceeded

SpecCommand == InitCommand /\ [][NextCommand]_vars

-----------------------------------------------------------------------------
(* C15 *)

CommandEnded ==
    cmd \in {"done:setup", "done:gitUnavailable", "done:noRepo", "done:noChanges",
             "done:failed", "done:generated"}

-----------------------------------------------------------------------------
(* C16 *)

\* the command called generateCommitText
CalledGenerate == pc # "idle"

\* C16 as stated: with debugView on, every command that called
\* generateCommitText has opened one debug document when it ends, whether the
\* generation succeeded or failed, and with debugView off none
C16_Original ==
    (CommandEnded /\ CalledGenerate) =>
        documents = (IF settings[1].debugView THEN 1 ELSE 0)

-----------------------------------------------------------------------------
(* collectRepositoryChanges and trimUtf8: src/src/git.ts *)

\* a run of 4070 ASCII characters of diff lines, written as one element
DiffRun == "<4070 characters of diff lines>"
DiffRunBytes == 4070
REPLACEMENT == "U+FFFD"
TruncationMark == <<"[Diff truncated due to maxDiffBytes limit]">>

\* the smallest and the default cap readConfig gives to maxDiffBytes
MIN_DIFF_BYTES == 4096
DEFAULT_DIFF_BYTES == 120000

\* the number of bytes of a character in UTF-8
Utf8Bytes(c) ==
    CASE c = DiffRun -> DiffRunBytes
      [] c = TruncationMark[1] -> 42
      [] c \in {"U+65B0", "U+589E", FWCOLON, LSEP, REPLACEMENT} -> 3
      [] c = EMOJI -> 4
      [] OTHER -> 1

\* Buffer.byteLength(text, "utf8")
RECURSIVE byteLength(_)
byteLength(text) ==
    IF text = <<>> THEN 0 ELSE Utf8Bytes(Head(text)) + byteLength(Tail(text))

\* buffer.subarray(0, maxBytes).toString("utf8"): the characters that fit, and
\* the replacement character for one that is cut
RECURSIVE SliceBytes(_, _)
SliceBytes(text, maxBytes) ==
    IF text = <<>> \/ maxBytes <= 0 THEN <<>>
    ELSE IF Utf8Bytes(Head(text)) <= maxBytes
    THEN <<Head(text)>> \o SliceBytes(Tail(text), maxBytes - Utf8Bytes(Head(text)))
    ELSE <<REPLACEMENT>>

trimUtf8(text, maxBytes) ==
    IF byteLength(text) <= maxBytes THEN [text |-> text, truncated |-> FALSE]
    ELSE [text |-> SliceBytes(text, maxBytes) \o <<LF, LF>> \o TruncationMark,
          truncated |-> TRUE]

\* diffParts.join("\n\n"): the staged diff, and unless includeOnlyStaged the
\* unstaged diff and the previews of the untracked files, each under its heading
MergedDiff(out, cfg) ==
    Join((IF Len(Trim(out.staged)) > 0 THEN <<<<"#"," ","S","t","a","g","e","d"," ","c","h","a","n","g","e","s">>, out.staged>> ELSE <<>>)
         \o (IF cfg.includeOnlyStaged THEN <<>>
             ELSE (IF Len(Trim(out.unstaged)) > 0
                   THEN <<<<"#"," ","U","n","s","t","a","g","e","d"," ","c","h","a","n","g","e","s">>, out.unstaged>> ELSE <<>>)
                  \o (IF Len(Trim(out.untrackedPreview)) > 0
                      THEN <<<<"#"," ","U","n","t","r","a","c","k","e","d"," ","f","i","l","e"," ","p","r","e","v","i","e","w","s">>, out.untrackedPreview>>
                      ELSE <<>>)),
         <<LF, LF>>)

collectRepositoryChanges(out, cfg) ==
    [status |-> out.status,
     diff |-> trimUtf8(MergedDiff(out, cfg), cfg.maxDiffBytes).text,
     wasTruncated |-> trimUtf8(MergedDiff(out, cfg), cfg.maxDiffBytes).truncated]

\* what the git commands print, trimmed by runGit: with the heading and the
\* separator the staged diffs measure 4088, 4096, 4097 and 4098 bytes, the last
\* with a three-byte character across the 4096th byte
GitOutputs ==
    [status : {<<"M"," ","a",".","t","s">>},
     staged : {<<>>, <<DiffRun>>, <<DiffRun>> \o <<"1","2","3","4","5","6","7","8">>, <<DiffRun>> \o <<"1","2","3","4","5","6","7","8","9">>,
               <<DiffRun>> \o <<"1","2","3","4","5","6","7">> \o <<"U+65B0">>},
     unstaged : {<<>>, <<"-","y">>},
     untrackedPreview : {<<>>, <<"#","#"," ","f">> \o <<LF>> \o <<"x">>}]

CollectSettings ==
    {[DefaultSettings EXCEPT !.includeOnlyStaged = s, !.truncateDiff = t, !.maxDiffBytes = m] :
        s \in BOOLEAN, t \in BOOLEAN, m \in {MIN_DIFF_BYTES, DEFAULT_DIFF_BYTES}}

InitCollect ==
    /\ raw = <<>>
    /\ sanitized = NotRun
    /\ GenVarsIdle
    /\ stored = None
    /\ settings \in {Some(c) : c \in CollectSettings}
    /\ gitOutput \in {Some(o) : o \in GitOutputs}
    /\ snapshot = None
    /\ prompt = None
    /\ cmd = "idle"
    /\ inputBox = <<>>
    /\ documents = 0
    /\ SessVarsIdle

\* the call of collectRepositoryChanges(repositoryPath, config)
CollectChanges ==
    /\ snapshot = None
    /\ snapshot' = Some(collectRepositoryChanges(gitOutput[1], settings[1]))
    /\ UNCHANGED <<sanVars, genVars, stored, settings, gitOutput, prompt, cmd, inputBox,
                   documents, sessVars>>

NextCollect == CollectChanges

SpecCollect == InitCollect /\ [][NextCollect]_vars

-----------------------------------------------------------------------------
(* C17 *)

\* C17: the maxDiffBytes cap is applied only when truncateDiff is true: with
\* truncateDiff false the snapshot's diff is the full merged diff and
\* wasTruncated is false; with truncateDiff true wasTruncated is true exactly
\* when the merged diff exceeds maxDiffBytes UTF-8 bytes, and the diff is the
\* merged diff otherwise
C17_CapOnlyWhenTruncateDiff ==
    snapshot # None =>
        IF ~settings[1].truncateDiff
        THEN /\ snapshot[1].diff = MergedDiff(gitOutput[1], settings[1])
             /\ ~snapshot[1].wasTruncated
        ELSE /\ snapshot[1].wasTruncated
                  = (byteLength(MergedDiff(gitOutput[1], settings[1]))
                        > settings[1].maxDiffBytes)
             /\ (~snapshot[1].wasTruncated
                    => snapshot[1].diff = MergedDiff(gitOutput[1], settings[1]))


-----------------------------------------------------------------------------
(* C18 *)

StandardProviders == {"openai", "deepseek", "kimi", "glm"}

\* the request on the OpenAI-compatible path has been built
OpenAiRequestSent == request # None /\ adapter = "openai"

\* the request path the user stored, trimmed, with a leading slash
StoredPath ==
    LET configured == Trim(stored[1].customRequestPath)
    IN  IF configured = <<>> THEN <<>>
        ELSE IF configured[1] = "/" THEN configured ELSE <<"/">> \o configured

\* the endpoint for a request path: the stripped base URL and the path, or the
\* base URL alone if it ends in /chat/completions
EndpointFor(path) ==
    IF EndsWith(resolveBaseUrl(Cfg), <<"/","c","h","a","t","/","c","o","m","p","l","e","t","i","o","n","s">>) THEN resolveBaseUrl(Cfg)
    ELSE resolveBaseUrl(Cfg) \o path

\* C18 as stated: with no request path configured every standard provider is
\* sent to <base>/chat/completions
C18_Original ==
    (OpenAiRequestSent /\ (StoredPath # <<>> \/ Cfg.provider \in StandardProviders)) =>
        request[1].endpoint =
            EndpointFor(IF StoredPath # <<>> THEN StoredPath ELSE <<"/","c","h","a","t","/","c","o","m","p","l","e","t","i","o","n","s">>)

\* C18: on the OpenAI-compatible path the endpoint is the base URL with its
\* trailing slashes stripped followed by the request path with a leading
\* slash; with no request path configured the path is /chat/completions for
\* the provider openai only, and for deepseek, kimi, glm and custom it is
\* empty, so that a single slash follows the base URL; a stripped base URL
\* that ends in /chat/completions is the endpoint as it is
C18_EndpointFromBaseAndPath ==
    OpenAiRequestSent =>
        /\ resolveBaseUrl(Cfg) # <<>>
        /\ resolveBaseUrl(Cfg)[Len(resolveBaseUrl(Cfg))] # "/"
        /\ request[1].endpoint =
               EndpointFor(IF StoredPath # <<>> THEN StoredPath
                           ELSE IF Cfg.provider = "openai" THEN <<"/","c","h","a","t","/","c","o","m","p","l","e","t","i","o","n","s">>
                           ELSE <<"/">>)

C18_Witness ==
    /\ OpenAiRequestSent
    /\ Cfg.provider = "deepseek"
    /\ StoredPath = <<>>
    /\ request[1].endpoint = <<"h","t","t","p","s",":","/","/","a","p","i",".","d","e","e","p","s","e","e","k",".","c","o","m","/","v","1","/">>

-----------------------------------------------------------------------------
(* C19 *)

\* an extra header named Authorization, in any letter case, is configured
AuthorizationConfigured(cfg) ==
    \E n \in DOMAIN cfg.extraHeaders : toLowerCase(n) = <<"a","u","t","h","o","r","i","z","a","t","i","o","n">>

\* the Authorization header is injected
BearerInjected(cfg) == cfg.apiKey # <<>> /\ ~AuthorizationConfigured(cfg)

\* C19: the headers sent on the OpenAI-compatible path are the extra headers
\* with the values configured, Content-Type: application/json unless the
\* extra headers define Content-Type, and Authorization: Bearer <apiKey>
\* exactly when apiKey is non-empty and no extra header is named
\* Authorization in any letter case; no other header is sent, so a
\* configured Authorization header is neither overwritten nor doubled
C19_HeadersSent ==
    (request # None /\ adapter = "openai") =>
        /\ DOMAIN request[1].headers =
               DOMAIN Cfg.extraHeaders \cup {H_ContentType}
               \cup (IF BearerInjected(Cfg) THEN {H_Authorization} ELSE {})
        /\ \A n \in DOMAIN Cfg.extraHeaders : request[1].headers[n] = Cfg.extraHeaders[n]
        /\ H_ContentType \notin DOMAIN Cfg.extraHeaders
              => request[1].headers[H_ContentType] = <<"a","p","p","l","i","c","a","t","i","o","n","/","j","s","o","n">>
        /\ BearerInjected(Cfg)
              => request[1].headers[H_Authorization] = <<"B","e","a","r","e","r"," ">> \o Cfg.apiKey

C19_Witness ==
    /\ request # None /\ adapter = "openai"
    /\ Cfg.apiKey # <<>>
    /\ DOMAIN Cfg.extraHeaders = {H_AuthorizationLower, H_ContentType}
    /\ DOMAIN request[1].headers = {H_AuthorizationLower, H_ContentType}
    /\ request[1].headers[H_ContentType] = <<"t","1">>

-----------------------------------------------------------------------------
(* C20 *)

\* the body of the response has been read
BodyRead == response # None /\ response[1].body # None

\* C20: whatever the length of the response body, the snapshot's responseBody
\* is at most 20,000 characters long and the excerpt in the message of a
\* non-2xx error at most 600; a body within the cap is stored as it is
C20_LengthCapped ==
    /\ (debug # None /\ Snap.responseBody # None) =>
          /\ Snap.responseBody[1].len <= MAX_DEBUG_RESPONSE_LENGTH
          /\ (BodyRead /\ response[1].body[1].len <= MAX_DEBUG_RESPONSE_LENGTH)
                => Snap.responseBody[1] = response[1].body[1]
    /\ outcome.message.excerpt # None =>
          outcome.message.excerpt[1].len <= MAX_ERROR_EXCERPT_LENGTH

-----------------------------------------------------------------------------
(* C21 *)

\* a 2xx response whose message content is an array was read on the
\* OpenAI-compatible path
ArrayContentRead ==
    /\ adapter = "openai"
    /\ response # None
    /\ response[1].body # None
    /\ IsOk(response[1].status)
    /\ \E c \in OpenAiContents :
           c.t = "array" /\ response[1].body[1].payload = OpenAiPayload(c)

\* the parts of that array
ContentParts == response[1].body[1].payload.v.choices.v[1].v.message.v.content.v

\* the texts of the parts whose text field is a string, in order
RECURSIVE StringTexts(_)
StringTexts(parts) ==
    IF parts = <<>> THEN <<>>
    ELSE (IF /\ Head(parts).t = "object"
             /\ "text" \in DOMAIN Head(parts).v
             /\ Head(parts).v["text"].t = "string"
          THEN <<Head(parts).v["text"].v>> ELSE <<>>)
         \o StringTexts(Tail(parts))

\* C21: for array content the extracted text is the trimmed, newline-joined
\* concatenation of exactly the parts whose text field is a string; a part
\* without a text field or with a text that is not a string adds nothing, so
\* that no text is extracted when no string-valued part has any
C21_OnlyStringParts ==
    (pc = "done" /\ ArrayContentRead) =>
        IF Trim(Join(StringTexts(ContentParts), <<LF>>)) = <<>>
        THEN Snap.extractedText = None
        ELSE Snap.extractedText = Some(Trim(Join(StringTexts(ContentParts), <<LF>>)))

-----------------------------------------------------------------------------
(* The sanitizer run on texts made of whole lines *)

\* the lines a model answers with: commit lines that validate as they are or
\* after normalization, a line without letter or digit, a type without
\* subject, a numbered line without letters, and lines without a type
\* (bulleted, numbered, quoted, upper case)
CandidateLines == {
    <<"f","i","x",":"," ","a">>,
    <<"f","e","a","t","(","u","i",")">> \o <<FWCOLON>> \o <<"b">>,
    <<"!">>,
    <<"f","i","x",":","!">>,
    <<"-"," ","a","d","d"," ","b","u","g">>,
    <<"1","."," ">> \o <<"U+65B0","U+589E">>,
    <<"r","e","v","e","r","t"," ","s","p","e","c">>,
    <<"'","t","i","d","y","'">>,
    <<"2",")"," ","!">>,
    <<"R","E","A","D","M","E">> }

\* at most MaxLines lines in a raw text
MaxLines == 3
LineTexts ==
    {Join(lines, <<LF>>) : lines \in UNION {[1..n -> CandidateLines] : n \in 0..MaxLines}}

InitSelect ==
    /\ raw \in LineTexts
    /\ sanitized = NotRun
    /\ GenVarsIdle
    /\ ExtVarsIdle

SpecSelect == InitSelect /\ [][NextSanitize]_vars

-----------------------------------------------------------------------------
(* C22 *)

\* some candidate validates once normalized and localized
SomeValid(candidates) ==
    \E i \in 1..Len(candidates) : isValidCommitLine(Localized(candidates[i]))

\* the position of the first such candidate
FirstValid(candidates) ==
    CHOOSE i \in 1..Len(candidates) :
        /\ isValidCommitLine(Localized(candidates[i]))
        /\ \A j \in 1..(i - 1) : ~isValidCommitLine(Localized(candidates[j]))

SelectsFirstValid(candidates) ==
    /\ SomeValid(candidates) =>
          /\ sanitized = Returned(Localized(candidates[FirstValid(candidates)]))
          /\ sanitized = sanitizeOf(SubSeq(candidates, 1, FirstValid(candidates)))
    /\ (~SomeValid(candidates) /\ ~sanitized.threw) =>
          sanitized.value = buildFallbackCommitLine(candidates)

\* C22: sanitizeCommitText returns the normalized and localized form of the
\* first candidate line that validates, the same as if the text ended with
\* that line; the fallback line is what it returns only when no candidate
\* validates; and once it has returned or thrown, the outcome stays
C22_FirstValidWins ==
    /\ [](sanitized # NotRun => SelectsFirstValid(extractCandidates(raw)))
    /\ [][sanitized # NotRun => sanitized' = sanitized]_vars

\* "!" comes first, then two lines that validate: the first of them is returned
C22_Witness ==
    /\ raw = Join(<<<<"!">>, <<"f","e","a","t","(","u","i",")">> \o <<FWCOLON>> \o <<"b">>, <<"f","i","x",":"," ","a">>>>, <<LF>>)
    /\ sanitized = Returned(<<"f","e","a","t","(","u","i",")",":"," ","b">>)

-----------------------------------------------------------------------------
(* C23 *)

\* the categories in the order the claim gives them
TypeOrder == <<T_fix, T_feat, T_perf, T_refactor, T_docs, T_test, T_revert>>

\* a keyword of the category occurs in the lower-cased subject
KeywordOccurs(type, lower) ==
    \E n \in 1..Len(InferTable) :
        InferTable[n].type = type /\ \E k \in InferTable[n].keys : Contains(lower, k)

ExpectedType(lower) ==
    IF \E n \in 1..Len(TypeOrder) : KeywordOccurs(TypeOrder[n], lower)
    THEN TypeOrder[CHOOSE n \in 1..Len(TypeOrder) :
                       /\ KeywordOccurs(TypeOrder[n], lower)
                       /\ \A m \in 1..(n - 1) : ~KeywordOccurs(TypeOrder[m], lower)]
    ELSE T_chore

\* a candidate without its list marker
WithoutMarker(candidate) == Trim(StripNumberBullet(StripDashBullet(candidate)))

\* the fallback line the claim describes for a subject
ExpectedFallback(subject) == ExpectedType(toLowerCase(subject)) \o <<":"," ">> \o subject

FallbackOutcome(subject) ==
    IF subject # <<>> /\ isValidCommitLine(ExpectedFallback(subject))
    THEN sanitized = Returned(ExpectedFallback(subject))
    ELSE sanitized = Threw(MSG_INVALID)

FallbackAsClaimed(candidates) ==
    IF \E i \in 1..Len(candidates) : HasLetterOrNumber(WithoutMarker(candidates[i]))
    THEN FallbackOutcome(Trim(StripQuotes(StripTypePrefix(WithoutMarker(
             candidates[CHOOSE i \in 1..Len(candidates) :
                 /\ HasLetterOrNumber(WithoutMarker(candidates[i]))
                 /\ \A j \in 1..(i - 1) : ~HasLetterOrNumber(WithoutMarker(candidates[j]))])))))
    ELSE sanitized = Threw(MSG_INVALID)

NoneValid(candidates) == Len(candidates) > 0 /\ ~SomeValid(candidates)

\* C23: when no candidate validates, the fallback subject is the first
\* candidate that, its list marker removed, contains a letter or digit, with
\* type prefix and surrounding quotes removed; its type is the first of fix,
\* feat, perf, refactor, docs, test, revert with a keyword in the lower-cased
\* subject, else chore; the line is returned only if it validates, otherwise
\* the sanitizer fails with the invalid-message error
C23_FallbackLine ==
    (sanitized # NotRun /\ NoneValid(extractCandidates(raw))) =>
        FallbackAsClaimed(extractCandidates(raw))

\* a numbered line without letters is passed over; "revert spec" holds a
\* keyword of test and of revert, and test comes first
C23_Witness ==
    /\ raw = Join(<<<<"2",")"," ","!">>, <<"r","e","v","e","r","t"," ","s","p","e","c">>>>, <<LF>>)
    /\ sanitized = Returned(<<"t","e","s","t",":"," ","r","e","v","e","r","t"," ","s","p","e","c">>)

-----------------------------------------------------------------------------
(* C24 *)

\* the eight parts the claim lists, in its order, each with its condition
ClaimedParts(snap, cfg) == <<
    [on |-> TRUE,
     text |-> IF cfg.detailedOutput THEN TaskDetailed ELSE TaskConcise],
    [on |-> TRUE,
     text |-> <<"R","u","l","e","s",":">> \o <<LF>> \o cfg.ruleTemplate],
    [on |-> Trim(cfg.additionalRules) # <<>>,
     text |-> <<"A","d","d","i","t","i","o","n","a","l"," ","r","u","l","e","s",":">> \o <<LF>> \o Trim(cfg.additionalRules)],
    [on |-> TRUE,
     text |-> IF cfg.language = "zh"
              THEN LanguageZh \o <<LF, LF>> \o
                   (IF cfg.detailedOutput THEN ConstraintsZhDetailed ELSE ConstraintsZhConcise)
              ELSE LanguageEn \o <<LF, LF>> \o
                   (IF cfg.detailedOutput THEN ConstraintsEnDetailed ELSE ConstraintsEnConcise)],
    [on |-> Trim(snap.status) # <<>>,
     text |-> <<"G","i","t"," ","s","t","a","t","u","s"," ","(","s","h","o","r","t",")",":">> \o <<LF>> \o snap.status],
    [on |-> TRUE,
     text |-> <<"G","i","t"," ","d","i","f","f",":">> \o <<LF>> \o (IF snap.diff = <<>> THEN NoDiffProvided ELSE snap.diff)],
    [on |-> snap.wasFileLimited,
     text |-> <<"N","o","t","e",":"," ","C","h","a","n","g","e","d"," ","f","i","l","e","s"," ","w","e","r","e"," ","l","i","m","i","t","e","d"," ","t","o"," ">> \o DecimalOf(snap.includedChangedFiles)
              \o <<"/">> \o DecimalOf(snap.totalChangedFiles) \o <<" ","b","y"," ","m","a","x","C","h","a","n","g","e","d","F","i","l","e","s",".">>],
    [on |-> snap.wasTruncated,
     text |-> TruncatedNote] >>

\* the parts that are present, each led by a blank line, one after another
RECURSIVE BlankLineLed(_)
BlankLineLed(parts) ==
    IF parts = <<>> THEN <<>>
    ELSE (IF Head(parts).on THEN <<LF, LF>> \o Head(parts).text ELSE <<>>)
         \o BlankLineLed(Tail(parts))

\* C24: the userPrompt is, joined by blank lines and in this order: the task
\* statement (by detailedOutput), the rule template, the additional rules
\* (iff non-empty after trimming), the language requirement with its
\* output-constraint block (by language), the git status (iff non-blank), the
\* diff or its placeholder, the file-limit note with the included/total
\* counts (iff wasFileLimited), the truncation note (iff wasTruncated)
C24_SectionOrder ==
    prompt # None =>
        <<LF, LF>> \o prompt[1].userPrompt = BlankLineLed(ClaimedParts(snapshot[1], settings[1]))

\* every optional part is present: additional rules, status, both notes
C24_Witness ==
    /\ prompt # None
    /\ settings[1].additionalRules = <<" ","n","o"," ","e","m","o","j","i"," ">>
    /\ settings[1].detailedOutput
    /\ snapshot[1].status = <<"M"," ","a",".","t","s">>
    /\ snapshot[1].wasFileLimited
    /\ snapshot[1].wasTruncated
    /\ EndsWith(prompt[1].userPrompt,
                <<"N","o","t","e",":"," ","C","h","a","n","g","e","d"," ","f","i","l","e","s"," ","w","e","r","e"," ","l","i","m","i","t","e","d"," ","t","o"," ","1","/","1","2"," ","b","y"," ","m","a","x","C","h","a","n","g","e","d","F","i","l","e","s",".">>
                \o <<LF, LF>> \o TruncatedNote)

-----------------------------------------------------------------------------
(* A session: the generate command invoked several times, the invocations
   overlapping at their awaits, and Show Last AI Debug Report.
   src/src/extension.ts, lines 26, 51-134 and 136-143 *)

\* at most MaxInvocations invocations in a session
MaxInvocations == 2
Invocations == 1..MaxInvocations
Repositories == {"repoA", "repoB"}

\* the PromptPayload an invocation builds, the AiDebugSnapshot and the commit
\* message of the generateCommitText call made with a prompt
PromptBuiltBy(i) == [builtBy |-> i]
DebugOfCall(p) == [forPrompt |-> p]
MessageOfCall(p) == [answerTo |-> p]

NotStarted == [at |-> "notStarted", repository |-> None, prompt |-> None, result |-> "none"]

SessionSettings ==
    {[DefaultSettings EXCEPT !.debugView = d, !.copyToClipboard = c] :
        d \in BOOLEAN, c \in BOOLEAN}

InitSession ==
    /\ raw = <<>>
    /\ sanitized = NotRun
    /\ GenVarsIdle
    /\ stored = None
    /\ settings \in {Some(c) : c \in SessionSettings}
    /\ gitOutput = None
    /\ snapshot = None
    /\ prompt = None
    /\ cmd = "idle"
    /\ inputBox = <<>>
    /\ documents = 0
    /\ invocations = [i \in Invocations |-> NotStarted]
    /\ lastDebugState = None
    /\ inputBoxes = [r \in Repositories |-> None]
    /\ shown = None
    /\ log = <<>>
    /\ wizard = "closed"

sessFrame == <<sanVars, genVars, stored, settings, gitOutput, snapshot, prompt, cmd, inputBox,
               documents, wizard>>

HasSettled(i) == [inv |-> i, event |-> "settled"]
HasEnded(i) == [inv |-> i, event |-> "ended"]

\* the invocation goes on to a later point of the function
MovesTo(i, at) == invocations' = [invocations EXCEPT ![i].at = at]

\* the invocation returns without having touched lastDebugState or an input box
ReturnsEarly(i, how) ==
    /\ MovesTo(i, how)
    /\ log' = Append(log, HasEnded(i))
    /\ UNCHANGED <<sessFrame, lastDebugState, inputBoxes, shown>>

\* the command is triggered: readConfig, getSetupIssue; a setup issue ends it
SessStart ==
    \E i \in Invocations :
        /\ invocations[i].at = "notStarted"
        /\ \A j \in 1..(i - 1) : invocations[j].at # "notStarted"
        /\ \E issue \in BOOLEAN :
              IF issue THEN ReturnsEarly(i, "done:setup")
              ELSE /\ MovesTo(i, "gitApi")
                   /\ UNCHANGED <<sessFrame, lastDebugState, inputBoxes, shown, log>>

\* getGitApi() gives undefined
SessGitUnavailable ==
    \E i \in Invocations :
        /\ invocations[i].at = "gitApi"
        /\ ReturnsEarly(i, "done:gitUnavailable")

\* pickRepository gives undefined
SessNoRepository ==
    \E i \in Invocations :
        /\ invocations[i].at = "gitApi"
        /\ ReturnsEarly(i, "done:noRepo")

\* pickRepository gives a repository; collectRepositoryChanges is awaited
SessPick ==
    \E i \in Invocations, r \in Repositories :
        /\ invocations[i].at = "gitApi"
        /\ invocations' = [invocations EXCEPT ![i].at = "collecting",
                                              ![i].repository = Some(r)]
        /\ UNCHANGED <<sessFrame, lastDebugState, inputBoxes, shown, log>>

\* a git command fails: the outer catch shows the error
SessCollectFails ==
    \E i \in Invocations :
        /\ invocations[i].at = "collecting"
        /\ ReturnsEarly(i, "done:failed")

\* the status is blank
SessNoChanges ==
    \E i \in Invocations :
        /\ invocations[i].at = "collecting"
        /\ ReturnsEarly(i, "done:noChanges")

\* buildPrompt, then generateCommitText(prompt, config) is awaited
SessGenerate ==
    \E i \in Invocations :
        /\ invocations[i].at = "collecting"
        /\ invocations' = [invocations EXCEPT ![i].at = "pending",
                                              ![i].prompt = Some(PromptBuiltBy(i))]
        /\ UNCHANGED <<sessFrame, lastDebugState, inputBoxes, shown, log>>

\* generateCommitText throws an Error that is not an AiRequestError
SessThrows ==
    \E i \in Invocations :
        /\ invocations[i].at = "pending"
        /\ ReturnsEarly(i, "done:failed")

\* an AiRequestError that leaves lastDebugState as it was
SessAiRequestError_keepsState ==
    \E i \in Invocations :
        /\ invocations[i].at = "pending"
        /\ IF settings[1].debugView
           THEN /\ invocations' = [invocations EXCEPT ![i].at = "reporting",
                                                     ![i].result = "AiRequestError"]
                /\ log' = Append(log, HasSettled(i))
           ELSE /\ invocations' = [invocations EXCEPT ![i].at = "done:failed",
                                                     ![i].result = "AiRequestError"]
                /\ log' = log \o <<HasSettled(i), HasEnded(i)>>
        /\ UNCHANGED <<sessFrame, lastDebugState, inputBoxes, shown>>

\* generateCommitText throws an AiRequestError: lastDebugState is assigned,
\* openDebugDocument awaited if debugView is on, and the error thrown on
SessAiRequestError ==
    \E i \in Invocations :
        /\ invocations[i].at = "pending"
        /\ lastDebugState' = Some([prompt |-> invocations[i].prompt[1],
                                   snapshot |-> DebugOfCall(invocations[i].prompt[1])])
        /\ IF settings[1].debugView
           THEN /\ invocations' = [invocations EXCEPT ![i].at = "reporting",
                                                     ![i].result = "AiRequestError"]
                /\ log' = Append(log, HasSettled(i))
           ELSE /\ invocations' = [invocations EXCEPT ![i].at = "done:failed",
                                                     ![i].result = "AiRequestError"]
                /\ log' = log \o <<HasSettled(i), HasEnded(i)>>
        /\ UNCHANGED <<sessFrame, inputBoxes, shown>>

\* a return that writes the message to every repository's input box
SessReturns_everyBox ==
    \E i \in Invocations :
        /\ invocations[i].at = "pending"
        /\ lastDebugState' = Some([prompt |-> invocations[i].prompt[1],
                                   snapshot |-> DebugOfCall(invocations[i].prompt[1])])
        /\ inputBoxes' = [r \in Repositories |-> Some(MessageOfCall(invocations[i].prompt[1]))]
        /\ IF settings[1].copyToClipboard \/ settings[1].debugView
           THEN /\ invocations' = [invocations EXCEPT ![i].at = "reporting",
                                                     ![i].result = "returned"]
                /\ log' = Append(log, HasSettled(i))
           ELSE /\ invocations' = [invocations EXCEPT ![i].at = "done:generated",
                                                     ![i].result = "returned"]
                /\ log' = log \o <<HasSettled(i), HasEnded(i)>>
        /\ UNCHANGED <<sessFrame, shown>>

\* generateCommitText returns: lastDebugState and the input box of the
\* repository are assigned; the clipboard and the debug document are awaited
\* if configured
SessReturns ==
    \E i \in Invocations :
        /\ invocations[i].at = "pending"
        /\ lastDebugState' = Some([prompt |-> invocations[i].prompt[1],
                                   snapshot |-> DebugOfCall(invocations[i].prompt[1])])
        /\ inputBoxes' = [inputBoxes EXCEPT ![invocations[i].repository[1]] =
                              Some(MessageOfCall(invocations[i].prompt[1]))]
        /\ IF settings[1].copyToClipboard \/ settings[1].debugView
           THEN /\ invocations' = [invocations EXCEPT ![i].at = "reporting",
                                                     ![i].result = "returned"]
                /\ log' = Append(log, HasSettled(i))
           ELSE /\ invocations' = [invocations EXCEPT ![i].at = "done:generated",
                                                     ![i].result = "returned"]
                /\ log' = log \o <<HasSettled(i), HasEnded(i)>>
        /\ UNCHANGED <<sessFrame, shown>>

\* the awaited clipboard write and debug document are through
SessReported ==
    \E i \in Invocations :
        /\ invocations[i].at = "reporting"
        /\ MovesTo(i, IF invocations[i].result = "returned" THEN "done:generated"
                      ELSE "done:failed")
        /\ log' = Append(log, HasEnded(i))
        /\ UNCHANGED <<sessFrame, lastDebugState, inputBoxes, shown>>

\* showLastDebugReport: the message that there is no report yet, shown as
\* Some(None), or the document of lastDebugState
ShowLast ==
    /\ invocations # <<>>
    /\ shown' = Some(lastDebugState)
    /\ UNCHANGED <<sessFrame, invocations, lastDebugState, inputBoxes, log>>

NextSession ==
    \/ SessStart
    \/ SessGitUnavailable
    \/ SessNoRepository
    \/ SessPick
    \/ SessCollectFails
    \/ SessNoChanges
    \/ SessGenerate
    \/ SessThrows
    \/ SessAiRequestError
    \/ SessReturns
    \/ SessReported
    \/ ShowLast

SpecSession == InitSession /\ [][NextSession]_vars

-----------------------------------------------------------------------------
(* C25 *)

\* the invocations of the log with an event of one kind, in order
RECURSIVE InOrder(_, _)
InOrder(events, kind) ==
    IF events = <<>> THEN <<>>
    ELSE (IF Head(events).event = kind THEN <<Head(events).inv>> ELSE <<>>)
         \o InOrder(Tail(events), kind)

LastOf(s) == s[Len(s)]

\* the debug state of an invocation: its prompt with the snapshot of its call
StateOf(i) == Some([prompt |-> PromptBuiltBy(i), snapshot |-> DebugOfCall(PromptBuiltBy(i))])

\* C25 as stated: once an invocation has finished, Show Last AI Debug Report
\* shows the state of the invocation that finished last
C25_Original ==
    [][(ShowLast /\ InOrder(log, "ended") # <<>>) =>
           shown' = Some(StateOf(LastOf(InOrder(log, "ended"))))]_vars

\* C25: lastDebugState is overwritten when the generateCommitText call of an
\* invocation returns or throws an AiRequestError, and by nothing else: Show
\* Last AI Debug Report shows the state of the invocation whose call settled
\* so last, however many invocations ended since without such a call, and the
\* no-report message when no call settled so yet
C25_LastWriteWins ==
    [][ShowLast =>
           shown' = Some(IF InOrder(log, "settled") = <<>> THEN None
                         ELSE StateOf(LastOf(InOrder(log, "settled"))))]_vars

\* the first invocation generated a message, the second ended later for lack
\* of changes, and the report shown is the first invocation's
C25_Witness ==
    /\ invocations[1].at = "done:generated"
    /\ invocations[2].at = "done:noChanges"
    /\ LastOf(log) = HasEnded(2)
    /\ shown = Some(StateOf(1))

-----------------------------------------------------------------------------
(* C27 *)

\* the snapshot kept in lastDebugState belongs to the call made with the
\* prompt kept beside it
PairedState ==
    lastDebugState # None =>
        /\ lastDebugState[1].snapshot = DebugOfCall(lastDebugState[1].prompt)
        /\ \E i \in Invocations : /\ invocations[i].prompt = Some(lastDebugState[1].prompt)
                                  /\ invocations[i].result # "none"

\* the call of invocation i returns in this step
ReturnsNow(i) == invocations[i].result = "none" /\ invocations'[i].result = "returned"

\* C27: however the invocations overlap, lastDebugState holds a prompt
\* together with the debug snapshot of the call made with that prompt, and
\* the step in which an invocation's call returns writes the message of that
\* call to the input box of the repository that invocation picked and to no
\* other box; the boxes change in no other step
C27_OwnStateOwnBox ==
    /\ []PairedState
    /\ [][/\ \A i \in Invocations :
               ReturnsNow(i) =>
                   inputBoxes' = [inputBoxes EXCEPT ![invocations[i].repository[1]] =
                                      Some(MessageOfCall(PromptBuiltBy(i)))]
          /\ inputBoxes' # inputBoxes => \E i \in Invocations : ReturnsNow(i)]_vars

\* the second invocation was triggered while the call of the first was
\* pending, picked another repository, and its call returned first
C27_Witness ==
    /\ invocations[1].at = "pending"
    /\ invocations[1].repository = Some("repoA")
    /\ invocations[2].result = "returned"
    /\ invocations[2].repository = Some("repoB")
    /\ lastDebugState = StateOf(2)
    /\ inputBoxes["repoB"] = Some(MessageOfCall(PromptBuiltBy(2)))
    /\ inputBoxes["repoA"] = None

-----------------------------------------------------------------------------
(* C26 *)

\* the command ended before the point where it calls generateCommitText
EndedBeforeGenerate ==
    cmd \in {"done:setup", "done:gitUnavailable", "done:noRepo", "done:noChanges"}

\* C26: generateCommitText is called, and a request handed to the
\* transport, only by a command that is past the setup check without an
\* issue, past the Git API and the repository, and holds a snapshot with a
\* non-blank status and the prompt built from it; the call is made in the
\* step that leaves the Git stage; a command that ended for a setup issue,
\* for lack of Git or of a repository, or for a blank status has built no
\* prompt and made no request
C26_GenerateOnlyAfterChecks ==
    /\ [](/\ (fetchCalls > 0 \/ request # None) => CalledGenerate
          /\ CalledGenerate =>
                /\ cmd \in {"generating", "done:failed", "done:generated"}
                /\ getSetupIssue(Cfg) = "none"
                /\ snapshot # None
                /\ Trim(snapshot[1].status) # <<>>
                /\ prompt = Some(buildPrompt(snapshot[1], settings[1]))
          /\ EndedBeforeGenerate =>
                /\ ~CalledGenerate
                /\ prompt = None
                /\ fetchCalls = 0
                /\ request = None)
    /\ [][(~CalledGenerate /\ CalledGenerate') => (cmd = "gitApi" /\ cmd' = "generating")]_vars

\* a request is out for a command with changes
C26_Witness ==
    /\ cmd = "generating"
    /\ fetchCalls = 1
    /\ request # None
    /\ snapshot[1].status = <<"M"," ","a",".","t","s">>

-----------------------------------------------------------------------------
(* C28 *)

\* the setup check of the command found no issue for the configuration read
SetupCheckPassed == config # None /\ cmd # "idle" /\ getSetupIssue(Cfg) = "none"

\* C28: for a configuration produced by readConfig for which getSetupIssue
\* reports no issue, ensureConfig throws nothing and the base URL resolves to
\* a non-empty string, so that generateCommitText never ends with the plain
\* Error of a configuration check
C28_SetupCheckSuffices ==
    SetupCheckPassed =>
        /\ ensureConfig(Cfg) = NoError
        /\ resolveBaseUrl(Cfg) # <<>>
        /\ pc = "done" => outcome.kind # "Error"

-----------------------------------------------------------------------------
(* C29 *)

\* C29: a line sanitizeCommitText returned is returned unchanged when
\* sanitizeCommitText is applied to it
C29_Idempotent ==
    (sanitized # NotRun /\ ~sanitized.threw) =>
        sanitizeCommitText(sanitized.value) = Returned(sanitized.value)

-----------------------------------------------------------------------------
(* The setup wizard: src/unnamed/part_000, lines 246-352 and 404-415, run by
   runSetupWizard, src/src/extension.ts, lines 224-235 *)

\* what the settings hold when the wizard is opened
StoreBefore ==
    [language |-> "zh", provider |-> "openai", model |-> <<"g","p","t","-","4","o","-","m","i","n","i">>, apiKey |-> <<"k","0">>,
     baseUrl |-> <<>>, customRequestPath |-> <<>>, extraHeaders |-> <<"{","}">>,
     copyToClipboard |-> FALSE]

\* the answers the user gives at the prompts
WizardProviders == {"openai", "gemini", "custom"}
ModelAnswers == {<<"g","p","t","-","4","o","-","m","i","n","i">>, <<" ","m","1"," ">>}
ApiKeyAnswers == {<<>>, <<" ","k","1"," ">>}
BaseUrlAnswers == {<<>>, <<"h","t","t","p","s",":","/","/","h"," ">>}
RequestPathAnswers == {<<>>, <<"v","1","/","c","h","a","t">>}
HeaderAnswers == {<<>>, <<"{","\"","x","-","a","p","i","-","k","e","y","\"",":","\"","s","\"","}">>}

WizardSteps == {"language", "provider", "model", "apiKey", "baseUrl", "requestPath",
                "extraHeaders", "clipboard"}

InitWizard ==
    /\ raw = <<>>
    /\ sanitized = NotRun
    /\ GenVarsIdle
    /\ stored = Some(StoreBefore)
    /\ settings = None
    /\ gitOutput = None
    /\ snapshot = None
    /\ prompt = None
    /\ cmd = "idle"
    /\ inputBox = <<>>
    /\ documents = 0
    /\ invocations = <<>>
    /\ lastDebugState = None
    /\ inputBoxes = <<>>
    /\ shown = None
    /\ log = <<>>
    /\ wizard = "closed"

wizFrame == <<sanVars, genVars, settings, gitOutput, snapshot, prompt, cmd, inputBox,
              documents, invocations, lastDebugState, inputBoxes, shown, log>>

\* normalizeRequestPath
normalizeRequestPath(value) ==
    LET trimmed == IF Trim(value) = <<>> THEN <<"/","c","h","a","t","/","c","o","m","p","l","e","t","i","o","n","s">> ELSE Trim(value)
    IN  IF StartsWith(trimmed, <<"/">>) THEN trimmed ELSE <<"/">> \o trimmed

\* updateSetting(key, value): the value is written to the settings at once
updateSetting(key, value) == stored' = Some([stored[1] EXCEPT ![key] = value])

\* runSetupWizard calls openSetupWizard, which asks for the language
WizOpen ==
    /\ wizard = "closed"
    /\ wizard' = "language"
    /\ UNCHANGED <<wizFrame, stored>>

WizPickLanguage ==
    /\ wizard = "language"
    /\ \E l \in {"zh", "en"} : updateSetting("language", l)
    /\ wizard' = "provider"
    /\ UNCHANGED wizFrame

WizPickProvider ==
    /\ wizard = "provider"
    /\ \E p \in WizardProviders : updateSetting("provider", p)
    /\ wizard' = "model"
    /\ UNCHANGED wizFrame

\* validateInput lets no blank model through
WizEnterModel ==
    /\ wizard = "model"
    /\ \E m \in ModelAnswers : Trim(m) # <<>> /\ updateSetting("model", Trim(m))
    /\ wizard' = "apiKey"
    /\ UNCHANGED wizFrame

\* an empty answer keeps the API key that is stored
WizEnterApiKey ==
    /\ wizard = "apiKey"
    /\ \E k \in ApiKeyAnswers :
          IF Trim(k) # <<>> THEN updateSetting("apiKey", Trim(k)) ELSE UNCHANGED stored
    /\ wizard' = "baseUrl"
    /\ UNCHANGED wizFrame

\* validateInput wants a base URL for the custom provider; the request path
\* is asked for every provider but gemini
WizEnterBaseUrl ==
    /\ wizard = "baseUrl"
    /\ \E b \in BaseUrlAnswers :
          /\ stored[1].provider = "custom" => Trim(b) # <<>>
          /\ updateSetting("baseUrl", Trim(b))
    /\ wizard' = IF stored[1].provider # "gemini" THEN "requestPath" ELSE "extraHeaders"
    /\ UNCHANGED wizFrame

WizEnterRequestPath ==
    /\ wizard = "requestPath"
    /\ \E r \in RequestPathAnswers : updateSetting("customRequestPath", normalizeRequestPath(r))
    /\ wizard' = "extraHeaders"
    /\ UNCHANGED wizFrame

WizEnterHeaders ==
    /\ wizard = "extraHeaders"
    /\ \E h \in HeaderAnswers :
          updateSetting("extraHeaders", IF Trim(h) = <<>> THEN <<"{","}">> ELSE Trim(h))
    /\ wizard' = "clipboard"
    /\ UNCHANGED wizFrame

\* the last step: openSetupWizard returns true and the saved message is shown
WizPickClipboard ==
    /\ wizard = "clipboard"
    /\ \E c \in BOOLEAN : updateSetting("copyToClipboard", c)
    /\ wizard' = "saved"
    /\ UNCHANGED wizFrame

\* the prompt of a step is dismissed: openSetupWizard returns false and the
\* cancelled message is shown
WizCancel ==
    /\ wizard \in WizardSteps
    /\ wizard' = "cancelled"
    /\ UNCHANGED <<wizFrame, stored>>

NextWizard ==
    \/ WizOpen
    \/ WizPickLanguage
    \/ WizPickProvider
    \/ WizEnterModel
    \/ WizEnterApiKey
    \/ WizEnterBaseUrl
    \/ WizEnterRequestPath
    \/ WizEnterHeaders
    \/ WizPickClipboard
    \/ WizCancel

SpecWizard == InitWizard /\ [][NextWizard]_vars

-----------------------------------------------------------------------------
(* C30 *)

\* C30: a wizard run that was cancelled has left every setting as it was
\* when the wizard was opened
C30_CancelLeavesSettings ==
    wizard = "cancelled" => stored = Some(StoreBefore)
=============================================================================
